---------------------------- MODULE Spec2Model ----------------------------
(***************************************************************************)
(* Model of the clustering engine of the unsupervised-learning dashboard:  *)
(* kMeans, hierarchicalClustering and dbscan of the train route            *)
(* (src/src/app/api/model/train/route.ts) and dbscan and optics of the     *)
(* clustering library (src/src/lib/advanced-clustering.ts).                *)
(*                                                                         *)
(* Numbers.  The observation matrix holds integers.  Centroid coordinates  *)
(* and inertia are exact rationals <<num, den>>.  euclideanDistance is     *)
(* modelled by its square (SqDist): Math.sqrt is strictly increasing, so   *)
(* every comparison of two distances in the code is the comparison of the  *)
(* squares, and Math.pow(euclideanDistance(a, b), 2) is the square itself. *)
(* Floating-point rounding is not modelled.                                *)
(*                                                                         *)
(* Indices.  Row indices and cluster ids are 0-based as in the code; the   *)
(* sequences that hold them are 1-based, so a[i] of the code is At(a, i).  *)
(***************************************************************************)
EXTENDS Integers, Sequences, FiniteSets, TLC

VARIABLES
    pc,          \* position of the running call
    err,         \* "none", or the exception the call threw
    data,        \* the observation matrix passed to the call
    k,           \* requested cluster count (kMeans, hierarchicalClustering)
    centroids,   \* kMeans: centroids
    centroidRow, \* kMeans: per centroid, the data row whose array it is (0: an array of its own)
    clusters,    \* kMeans, dbscan (route): label per row; hierarchicalClustering: list of index lists
    changed,     \* kMeans: changed
    iteration,   \* kMeans: iteration
    inertia,     \* kMeans: inertia of the returned result
    prevInertia, \* history: inertia at the end of the previous kMeans iteration
    labels,      \* hierarchicalClustering, dbscan (library), optics: label per row
    linkage,     \* hierarchicalClustering: linkage
    eps,         \* dbscan: eps
    minPts,      \* dbscan, optics: minPts
    noise,       \* dbscan (route): noise
    clusterId,   \* dbscan: clusterId
    loopI,       \* dbscan, optics: i of the outer for loop
    seedSet,     \* dbscan (route): seedSet
    visited,     \* dbscan (library): visited
    neighbors,   \* dbscan (library): neighbors of the running expandCluster
    nbrPos,      \* dbscan (library): i of the running expandCluster
    maxEps,      \* optics: maxEps
    processed,   \* optics: processed
    reachabilityDistance,  \* optics: reachabilityDistance
    coreDistance,          \* optics: coreDistance
    orderedPoints,         \* optics: orderedPoints
    seeds,       \* optics: seeds of the running processPoint
    bandwidth,   \* meanShift: bandwidth
    centers,     \* meanShift: centers
    iter,        \* meanShift, simpleKMeansForSpectral: iter
    metric,      \* evaluation: the metric function that was called
    result,      \* evaluation: the value the metric returned
    divisions,   \* history: number of divisions the metric call performed
    dims,        \* autoSelectTechnique: <<data.length, data[0].length>>
    selection,   \* autoSelectTechnique: the value returned
    request,     \* POST /api/model/train: the request body
    dataset,     \* POST /api/model/train: row count of the stored dataset, -1 without one
    response,    \* POST /api/model/train: status of the response
    call,        \* POST /api/model/train: the clusterer call it makes
    models,      \* POST /api/model/train: number of model records created
    responsibilities,  \* gaussianMixture: responsibilities of the last E-step
    covariances, \* gaussianMixture: per component, the diagonal of its covariance
    runs,        \* spectralClustering: the results of two calls that draw the same initial centroids
    isTraining,        \* training page: isTraining
    trainingProgress,  \* training page: trainingProgress
    uiError,           \* training page: error
    progressInterval,  \* training page: TRUE while the interval of handleTrainModel is set
    finalTimeout,      \* training page: the time the timeout of the finally block is due, -1 without one
    now                \* training page: periods of 200 ms since handleTrainModel was called

kmVars == <<centroids, centroidRow, changed, iteration, inertia, prevInertia>>
hcVars == <<linkage>>
dbVars == <<eps, noise, clusterId, seedSet, visited, neighbors, nbrPos>>
opVars == <<maxEps, processed, reachabilityDistance, coreDistance, orderedPoints, seeds>>

msVars == <<bandwidth, centers, iter>>
evVars == <<metric, result, divisions>>
drVars == <<dims, selection>>
trVars == <<request, dataset, response, call, models>>
gmVars == <<responsibilities, covariances>>
uiVars == <<isTraining, trainingProgress, uiError, progressInterval, finalTimeout, now>>
restVars == <<msVars, evVars, drVars, trVars, gmVars, runs, uiVars>>

vars == <<pc, err, data, k, clusters, labels, minPts, loopI, kmVars, hcVars, dbVars, opVars, restVars>>

(***************************************************************************)
(* Bounds of the model.                                                    *)
(***************************************************************************)
MaxN == 3
MaxCoord == 2
MaxK == 3

(***************************************************************************)
(* Generic helpers.                                                        *)
(***************************************************************************)
At(s, i) == s[i + 1]

Min2(a, b) == IF a <= b THEN a ELSE b

Abs(a) == IF a < 0 THEN -a ELSE a

RECURSIVE GCD(_, _)
GCD(a, b) == IF b = 0 THEN a ELSE GCD(b, a % b)

\* Sequences of length 1..m over S
SeqsUpTo(S, m) == UNION {[1..len -> S] : len \in 1..m}

(***************************************************************************)
(* Exact rationals <<num, den>>, den > 0, in lowest terms.  Infinity is    *)
(* <<1, 0>>: RLess(x, Infinity) holds of every rational x.                 *)
(***************************************************************************)
Reduce(num, den, g) == <<num \div g, den \div g>>

Rat(num, den) == Reduce(num, den, GCD(Abs(num), den))

Infinity == <<1, 0>>

RAdd(x, y) == Rat(x[1] * y[2] + y[1] * x[2], x[2] * y[2])
RSub(x, y) == Rat(x[1] * y[2] - y[1] * x[2], x[2] * y[2])
RMul(x, y) == Rat(x[1] * y[1], x[2] * y[2])
RLess(x, y) == x[1] * y[2] < y[1] * x[2]
RLeq(x, y) == x[1] * y[2] <= y[1] * x[2]

RECURSIVE RSumFrom(_, _)
RSumFrom(s, q) == IF q > Len(s) THEN <<0, 1>> ELSE RAdd(s[q], RSumFrom(s, q + 1))

RSum(s) == RSumFrom(s, 1)

\* a row of the matrix as a vector of rationals ([...data[i]])
RatVec(row) == [d \in 1..Len(row) |-> <<row[d], 1>>]

\* euclideanDistance(a, b) squared, a and b vectors of rationals
Square(x) == RMul(x, x)

SqDist(a, b) == RSum([d \in 1..Len(a) |-> Square(RSub(a[d], b[d]))])

(***************************************************************************)
(* Inputs.                                                                 *)
(***************************************************************************)
ScenarioData == <<(<<0, 0>>), (<<0, 1>>), (<<10, 10>>), (<<10, 11>>)>>

LineData == SeqsUpTo({<<c>> : c \in 0..MaxCoord}, MaxN)

DataSets == LineData \cup {ScenarioData}

RowsDistinct(m) == \A i, j \in 1..Len(m) : i # j => m[i] # m[j]

(***************************************************************************)
(* Values of the variables a call does not use.                            *)
(***************************************************************************)
KMeansIdle ==
    /\ centroids = <<>>
    /\ centroidRow = <<>>
    /\ changed = FALSE
    /\ iteration = 0
    /\ inertia = <<0, 1>>
    /\ prevInertia = Infinity

HierIdle == linkage = <<>>

DbscanIdle ==
    /\ eps = 0
    /\ noise = <<>>
    /\ clusterId = 0
    /\ seedSet = <<>>
    /\ visited = <<>>
    /\ neighbors = <<>>
    /\ nbrPos = 0

OpticsIdle ==
    /\ maxEps = Infinity
    /\ processed = <<>>
    /\ reachabilityDistance = <<>>
    /\ coreDistance = <<>>
    /\ orderedPoints = <<>>
    /\ seeds = <<>>

MeanShiftIdle ==
    /\ bandwidth = 0
    /\ centers = <<>>
    /\ iter = 0

EvalIdle ==
    /\ metric = "none"
    /\ result = "none"
    /\ divisions = 0

SelectIdle ==
    /\ dims = <<0, 0>>
    /\ selection = "none"

TrainIdle ==
    /\ request = "none"
    /\ dataset = -1
    /\ response = 0
    /\ call = [fn |-> "none"]
    /\ models = 0

GmmIdle ==
    /\ responsibilities = <<>>
    /\ covariances = <<>>

PairIdle == runs = <<>>

UiIdle ==
    /\ isTraining = FALSE
    /\ trainingProgress = 0
    /\ uiError = ""
    /\ progressInterval = FALSE
    /\ finalTimeout = -1
    /\ now = 0

RestIdle == MeanShiftIdle /\ EvalIdle /\ SelectIdle /\ TrainIdle /\ GmmIdle /\ PairIdle /\ UiIdle

(***************************************************************************)
(* kMeans (train route).                                                   *)
(***************************************************************************)
maxIterations == 100

\* the linear scan over centroids: first centroid of least distance
RECURSIVE ScanCentroids(_, _, _, _, _)
ScanCentroids(point, cents, j, minDistance, closestCentroid) ==
    IF j >= Len(cents) THEN closestCentroid
    ELSE LET distance == SqDist(point, At(cents, j)) IN
         IF RLess(distance, minDistance)
         THEN ScanCentroids(point, cents, j + 1, distance, j)
         ELSE ScanCentroids(point, cents, j + 1, minDistance, closestCentroid)

ClosestCentroid(point, cents) == ScanCentroids(point, cents, 0, Infinity, 0)

\* the assignment loop: label of every row
Assign(m, cents) == [i \in 1..Len(m) |-> ClosestCentroid(RatVec(m[i]), cents)]

\* rows (1-based positions) carrying label j
ClusterPoints(labs, j) == {i \in 1..Len(labs) : labs[i] = j}

RECURSIVE SumOver(_, _, _)
SumOver(m, S, d) ==
    IF S = {} THEN 0
    ELSE LET i == CHOOSE x \in S : TRUE IN m[i][d] + SumOver(m, S \ {i}, d)

\* mutant of UpdateCentroid: the sum is divided by the number of rows
UpdateCentroid_DivByRows(m, labs, j, old) ==
    LET pts == ClusterPoints(labs, j) IN
    IF Cardinality(pts) > 0
    THEN [d \in 1..Len(m[1]) |-> Rat(SumOver(m, pts, d), Len(m))]
    ELSE old

\* mutant of UpdateCentroid: no guard, the sum of no rows is divided by 0
UpdateCentroid_NoGuard(m, labs, j, old) ==
    LET pts == ClusterPoints(labs, j) IN
    IF Cardinality(pts) > 0
    THEN [d \in 1..Len(m[1]) |-> Rat(SumOver(m, pts, d), Cardinality(pts))]
    ELSE [d \in 1..Len(m[1]) |-> <<0, 0>>]

\* the update loop: mean of the assigned rows; an empty cluster keeps its centroid
UpdateCentroid(m, labs, j, old) ==
    LET pts == ClusterPoints(labs, j) IN
    IF Cardinality(pts) > 0
    THEN [d \in 1..Len(m[1]) |-> Rat(SumOver(m, pts, d), Cardinality(pts))]
    ELSE old

UpdateCentroids(m, labs, cents) ==
    [j \in 1..Len(cents) |-> UpdateCentroid(m, labs, j - 1, cents[j])]

\* within-cluster sum of squares; defined when every label has a centroid
Inertia(m, labs, cents) ==
    RSum([i \in 1..Len(m) |-> SqDist(RatVec(m[i]), At(cents, labs[i]))])

\* mutant of SeedArray: the row itself is pushed, not a copy of it
SeedArray_SameArray(row) == row

\* centroids.push([...data[randomIndex]]): the spread makes the centroid an
\* array of its own, which shares nothing with row randomIndex
SeedArray(row) == 0

\* an entry written into a row of the matrix
Entry(x) == IF x[2] = 1 THEN x[1] ELSE x

\* the matrix after the update loop has written the centroids: the write of
\* centroids[j][d] lands in a row only when centroid j is that row's array
WrittenThrough(m, rowOf, labs, cents) ==
    [r \in 1..Len(m) |->
        IF \E j \in 1..Len(cents) : rowOf[j] = r /\ ClusterPoints(labs, j - 1) # {}
        THEN LET j == CHOOSE c \in 1..Len(cents) :
                          rowOf[c] = r /\ ClusterPoints(labs, c - 1) # {}
             IN  [d \in 1..Len(m[r]) |-> Entry(cents[j][d])]
        ELSE m[r]]

KMeansInit ==
    /\ pc = "kmeans"
    /\ \E choice \in [1..k -> 1..Len(data)] :
          /\ centroids' = [j \in 1..k |-> RatVec(data[choice[j]])]
          /\ centroidRow' = [j \in 1..k |-> SeedArray(choice[j])]
    /\ clusters' = [i \in 1..Len(data) |-> 0]
    /\ changed' = TRUE
    /\ iteration' = 0
    /\ pc' = "kmeans_loop"
    /\ UNCHANGED <<err, data, k, inertia, prevInertia>>
    /\ UNCHANGED <<labels, minPts, loopI, hcVars, dbVars, opVars, restVars>>

KMeansIterate ==
    /\ pc = "kmeans_loop"
    /\ changed /\ iteration < maxIterations
    /\ clusters' = Assign(data, centroids)
    /\ changed' = (clusters' # clusters)
    /\ centroids' = UpdateCentroids(data, clusters', centroids)
    /\ prevInertia' = IF iteration >= 1 /\ k >= 1
                      THEN Inertia(data, clusters, centroids)
                      ELSE Infinity
    /\ iteration' = iteration + 1
    /\ data' = WrittenThrough(data, centroidRow, clusters', centroids')
    /\ UNCHANGED <<pc, err, k, inertia, centroidRow>>
    /\ UNCHANGED <<labels, minPts, loopI, hcVars, dbVars, opVars, restVars>>

KMeansReturn ==
    /\ pc = "kmeans_loop"
    /\ ~(changed /\ iteration < maxIterations)
    /\ IF \A i \in 1..Len(data) : clusters[i] < Len(centroids)
       THEN /\ inertia' = Inertia(data, clusters, centroids)
            /\ pc' = "kmeans_done"
            /\ err' = "none"
       ELSE \* centroids[clusters[i]] is undefined: reading b[i] of it throws
            /\ inertia' = inertia
            /\ pc' = "threw"
            /\ err' = "TypeError"
    /\ UNCHANGED <<data, k, centroids, centroidRow, clusters, changed, iteration, prevInertia>>
    /\ UNCHANGED <<labels, minPts, loopI, hcVars, dbVars, opVars, restVars>>

KMeansInitState ==
    /\ pc = "kmeans"
    /\ err = "none"
    /\ data \in DataSets
    /\ k \in 0..Min2(Len(data) + 1, MaxK)
    /\ clusters = <<>>
    /\ labels = <<>>
    /\ minPts = 0
    /\ loopI = 0
    /\ KMeansIdle /\ HierIdle /\ DbscanIdle /\ OpticsIdle /\ RestIdle

KMeansNext == KMeansInit \/ KMeansIterate \/ KMeansReturn

SpecKMeans == KMeansInitState /\ [][KMeansNext]_vars

(***************************************************************************)
(* Properties of kMeans.                                                   *)
(***************************************************************************)
KMeansReturned == pc = "kmeans_done"

\* the two clusters of the scenario: rows 0,1 together, rows 2,3 together, apart
ScenarioSplit ==
    /\ At(clusters, 0) = At(clusters, 1)
    /\ At(clusters, 2) = At(clusters, 3)
    /\ At(clusters, 0) # At(clusters, 2)

ScenarioCentroids ==
    {At(centroids, 0), At(centroids, 1)} =
        {<< <<0, 1>>, <<1, 2>> >>, << <<10, 1>>, <<21, 2>> >>}

\* C3: kMeans with k = n on pairwise distinct rows returns inertia 0,
\* whatever the initial centroids.
C3_KEqualsNInertiaZero ==
    (KMeansReturned /\ k = Len(data) /\ RowsDistinct(data)) => inertia = <<0, 1>>

\* C4: on [[0,0],[0,1],[10,10],[10,11]] with k = 2 kMeans returns the clusters
\* {row0,row1} and {row2,row3}, the centroids [0,0.5] and [10,10.5] and
\* inertia 1, whatever the initial centroids.
C4_ScenarioResult ==
    (KMeansReturned /\ data = ScenarioData /\ k = 2) =>
        /\ ScenarioSplit
        /\ ScenarioCentroids
        /\ inertia = <<1, 1>>

\* C10: kMeans and hierarchicalClustering called with k < 1 or k > n end with
\* an InvalidK failure raised before any iteration, and return no labels.
C10_InvalidKRejected ==
    ((k < 1 \/ k > Len(data)) /\ pc \in {"kmeans_done", "hier_done", "threw"}) =>
        /\ pc = "threw"
        /\ err = "InvalidK"
        /\ iteration = 0
        /\ linkage = <<>>

\* C5: the inertia measured at the end of an assignment+update iteration of
\* kMeans is never larger than the one measured at the end of the iteration
\* before it.
C5_InertiaNonIncreasing ==
    [][(pc = "kmeans_loop" /\ iteration >= 1 /\ iteration' = iteration + 1) =>
          RLeq(Inertia(data, clusters', centroids'),
               Inertia(data, clusters, centroids))]_vars

C5_Witness ==
    /\ pc = "kmeans_loop" /\ iteration >= 2
    /\ RLess(Inertia(data, clusters, centroids), prevInertia)
    /\ RLess(<<0, 1>>, Inertia(data, clusters, centroids))

(***************************************************************************)
(* hierarchicalClustering (train route).  clusters is the list of index    *)
(* lists; a linkage entry is <<i, j, minDistance, mergedSize>> with the    *)
(* distance squared.                                                       *)
(***************************************************************************)
\* clusterDistance: least distance between a row of cluster1 and one of cluster2
ClusterDistance(m, cluster1, cluster2) ==
    LET ds == {SqDist(RatVec(At(m, cluster1[a])), RatVec(At(m, cluster2[b]))) :
                  a \in 1..Len(cluster1), b \in 1..Len(cluster2)}
    IN IF ds = {} THEN Infinity
       ELSE CHOOSE x \in ds : \A y \in ds : RLeq(x, y)

\* the row-major scan over the pairs i < j: <<minDistance, mergeIndices>>
RECURSIVE ScanPairs(_, _, _, _, _, _)
ScanPairs(m, cl, a, b, minDistance, mergeIndices) ==
    IF a >= Len(cl) THEN <<minDistance, mergeIndices>>
    ELSE IF b >= Len(cl) THEN ScanPairs(m, cl, a + 1, a + 2, minDistance, mergeIndices)
    ELSE LET distance == ClusterDistance(m, At(cl, a), At(cl, b)) IN
         IF RLess(distance, minDistance)
         THEN ScanPairs(m, cl, a, b + 1, distance, <<a, b>>)
         ELSE ScanPairs(m, cl, a, b + 1, minDistance, mergeIndices)

\* mutant of ClosestPair: the scan keeps the last pair, not the closest
ClosestPair_LastPair(m, cl) ==
    IF Len(cl) < 2 THEN <<Infinity, <<0, 1>>>>
    ELSE <<ClusterDistance(m, At(cl, Len(cl) - 2), At(cl, Len(cl) - 1)),
           <<Len(cl) - 2, Len(cl) - 1>>>>

ClosestPair(m, cl) == ScanPairs(m, cl, 0, 1, Infinity, <<0, 1>>)

\* mutant of DropTwo: only the first cluster of the pair is removed
DropTwo_OnlyFirst(cl, a, b, pos) ==
    [q \in 1..(Len(cl) - 1) |-> IF q - 1 < a THEN cl[q] ELSE cl[q + 1]]

\* clusters.filter((_, i) => i !== a && i !== b)
RECURSIVE DropTwo(_, _, _, _)
DropTwo(cl, a, b, pos) ==
    IF pos >= Len(cl) THEN <<>>
    ELSE IF pos = a \/ pos = b THEN DropTwo(cl, a, b, pos + 1)
    ELSE <<At(cl, pos)>> \o DropTwo(cl, a, b, pos + 1)

\* labels: 0 everywhere, then the index of the cluster that holds the row
FlattenLabels(n, cl) ==
    [p \in 1..n |->
        IF \E c \in 1..Len(cl) : \E q \in 1..Len(cl[c]) : cl[c][q] = p - 1
        THEN (CHOOSE c \in 1..Len(cl) : \E q \in 1..Len(cl[c]) : cl[c][q] = p - 1) - 1
        ELSE 0]

HierInit ==
    /\ pc = "hier"
    /\ clusters' = [p \in 1..Len(data) |-> <<p - 1>>]
    /\ linkage' = <<>>
    /\ pc' = "hier_loop"
    /\ UNCHANGED <<err, data, k, labels, minPts, loopI, kmVars, dbVars, opVars, restVars>>

HierMerge ==
    /\ pc = "hier_loop"
    /\ Len(clusters) > k
    /\ LET found == ClosestPair(data, clusters)
           a == found[2][1]
           b == found[2][2]
       IN IF b < Len(clusters)
          THEN LET newCluster == At(clusters, a) \o At(clusters, b) IN
               /\ linkage' = Append(linkage, <<a, b, found[1], Len(newCluster)>>)
               /\ clusters' = Append(DropTwo(clusters, a, b, 0), newCluster)
               /\ UNCHANGED <<pc, err>>
          ELSE \* clusters[1] is undefined: spreading it throws
               /\ pc' = "threw"
               /\ err' = "TypeError"
               /\ UNCHANGED <<linkage, clusters>>
    /\ UNCHANGED <<data, k, labels, minPts, loopI, kmVars, dbVars, opVars, restVars>>

HierReturn ==
    /\ pc = "hier_loop"
    /\ ~(Len(clusters) > k)
    /\ labels' = FlattenLabels(Len(data), clusters)
    /\ pc' = "hier_done"
    /\ UNCHANGED <<err, data, k, clusters, minPts, loopI, kmVars, hcVars, dbVars, opVars, restVars>>

HierInitState ==
    /\ pc = "hier"
    /\ err = "none"
    /\ data \in DataSets
    /\ k \in 0..(Len(data) + 1)
    /\ clusters = <<>>
    /\ labels = <<>>
    /\ minPts = 0
    /\ loopI = 0
    /\ KMeansIdle /\ HierIdle /\ DbscanIdle /\ OpticsIdle /\ RestIdle

HierNext == HierInit \/ HierMerge \/ HierReturn

SpecHier == HierInitState /\ [][HierNext]_vars

\* C9: hierarchicalClustering on n rows with 1 <= k <= n returns a linkage
\* record of exactly n - k entries and stops with exactly k clusters; one
\* entry is appended per merge.
C9_LinkageLength ==
    (1 <= k /\ k <= Len(data)) =>
        /\ pc = "hier_loop" => Len(linkage) = Len(data) - Len(clusters)
        /\ pc = "hier_done" => Len(linkage) = Len(data) - k /\ Len(clusters) = k

C9_Witness ==
    /\ pc = "hier_done"
    /\ 1 <= k /\ Len(data) - k >= 2
    /\ Len(linkage) = Len(data) - k

(***************************************************************************)
(* dbscan, both implementations.  eps is an integer; a distance is within  *)
(* eps when its square is at most eps * eps.                               *)
(***************************************************************************)
WithinEps(m, p, q, e) ==
    RLeq(SqDist(RatVec(At(m, p)), RatVec(At(m, q))), <<e * e, 1>>)

Contains(s, x) == \E q \in 1..Len(s) : s[q] = x

SetAt(s, p, v) == [s EXCEPT ![p + 1] = v]

\* s.filter(n => !t.includes(n))
RECURSIVE NotIn(_, _)
NotIn(s, t) ==
    IF s = <<>> THEN <<>>
    ELSE (IF Contains(t, Head(s)) THEN <<>> ELSE <<Head(s)>>) \o NotIn(Tail(s), t)

\* the loop of getNeighbors from row q on
RECURSIVE NeighborsFrom(_, _, _, _)
NeighborsFrom(m, pointIndex, e, q) ==
    IF q >= Len(m) THEN <<>>
    ELSE (IF q # pointIndex /\ WithinEps(m, pointIndex, q, e) THEN <<q>> ELSE <<>>)
         \o NeighborsFrom(m, pointIndex, e, q + 1)

\* getNeighbors (train route): the other rows within eps, in index order
getNeighbors(m, pointIndex, e) == NeighborsFrom(m, pointIndex, e, 0)

\* the loop of regionQuery from row q on
RECURSIVE RegionFrom(_, _, _, _)
RegionFrom(m, pointIdx, e, q) ==
    IF q >= Len(m) THEN <<>>
    ELSE (IF WithinEps(m, pointIdx, q, e) THEN <<q>> ELSE <<>>)
         \o RegionFrom(m, pointIdx, e, q + 1)

\* regionQuery (library): the rows within eps, the row itself included
regionQuery(m, pointIdx, e) == RegionFrom(m, pointIdx, e, 0)

\* mutant of TooFewNeighbors: a row with exactly minPts neighbours is refused too
TooFewNeighbors_OrEqual(nbrs, mp) == Len(nbrs) <= mp

\* mutant of TooFewNeighbors: the comparison is turned around
TooFewNeighbors_Flipped(nbrs, mp) == Len(nbrs) > mp

\* the test that leaves a row unclustered when the outer loop reaches it
TooFewNeighbors(nbrs, mp) == Len(nbrs) < mp

(* dbscan of the train route *)
DbscanInit ==
    /\ pc = "dbscan"
    /\ clusters' = [p \in 1..Len(data) |-> -1]
    /\ noise' = <<>>
    /\ clusterId' = 0
    /\ loopI' = 0
    /\ pc' = "dbscan_loop"
    /\ UNCHANGED <<err, data, k, labels, minPts, eps, seedSet, visited, neighbors, nbrPos>>
    /\ UNCHANGED <<kmVars, hcVars, opVars, restVars>>

\* if (clusters[i] !== -1) continue
DbscanSkip ==
    /\ pc = "dbscan_loop" /\ loopI < Len(data)
    /\ At(clusters, loopI) # -1
    /\ loopI' = loopI + 1
    /\ UNCHANGED <<pc, err, data, k, clusters, labels, minPts, kmVars, hcVars, dbVars, opVars, restVars>>

\* neighbors.length < minPts: noise.push(i)
DbscanNoise ==
    /\ pc = "dbscan_loop" /\ loopI < Len(data)
    /\ At(clusters, loopI) = -1
    /\ TooFewNeighbors(getNeighbors(data, loopI, eps), minPts)
    /\ noise' = Append(noise, loopI)
    /\ loopI' = loopI + 1
    /\ UNCHANGED <<pc, err, data, k, clusters, labels, minPts>>
    /\ UNCHANGED <<eps, clusterId, seedSet, visited, neighbors, nbrPos, kmVars, hcVars, opVars, restVars>>

\* the row opens cluster clusterId; its neighbours are the seed set
DbscanOpen ==
    /\ pc = "dbscan_loop" /\ loopI < Len(data)
    /\ At(clusters, loopI) = -1
    /\ ~TooFewNeighbors(getNeighbors(data, loopI, eps), minPts)
    /\ clusters' = SetAt(clusters, loopI, clusterId)
    /\ seedSet' = getNeighbors(data, loopI, eps)
    /\ pc' = "dbscan_expand"
    /\ UNCHANGED <<err, data, k, labels, minPts, loopI>>
    /\ UNCHANGED <<eps, noise, clusterId, visited, neighbors, nbrPos, kmVars, hcVars, opVars, restVars>>

\* one pass of while (seedSet.length > 0)
DbscanExpand ==
    /\ pc = "dbscan_expand" /\ Len(seedSet) > 0
    /\ LET currentPoint == seedSet[Len(seedSet)]
           popped == SubSeq(seedSet, 1, Len(seedSet) - 1)
           currentNeighbors == getNeighbors(data, currentPoint, eps)
       IN IF Contains(noise, currentPoint)
          THEN /\ clusters' = SetAt(clusters, currentPoint, clusterId)
               /\ seedSet' = popped
          ELSE IF At(clusters, currentPoint) # -1
          THEN /\ clusters' = clusters
               /\ seedSet' = popped
          ELSE /\ clusters' = SetAt(clusters, currentPoint, clusterId)
               /\ seedSet' = IF Len(currentNeighbors) >= minPts
                             THEN popped \o NotIn(currentNeighbors, popped)
                             ELSE popped
    /\ UNCHANGED <<pc, err, data, k, labels, minPts, loopI>>
    /\ UNCHANGED <<eps, noise, clusterId, visited, neighbors, nbrPos, kmVars, hcVars, opVars, restVars>>

\* mutant of DbscanClose: clusterId is not incremented
DbscanClose_SameId ==
    /\ pc = "dbscan_expand" /\ Len(seedSet) = 0
    /\ loopI' = loopI + 1
    /\ pc' = "dbscan_loop"
    /\ UNCHANGED <<err, data, k, clusters, labels, minPts>>
    /\ UNCHANGED <<eps, noise, clusterId, seedSet, visited, neighbors, nbrPos>>
    /\ UNCHANGED <<kmVars, hcVars, opVars, restVars>>

\* the seed set is empty: clusterId++ and the outer loop goes on
DbscanClose ==
    /\ pc = "dbscan_expand" /\ Len(seedSet) = 0
    /\ clusterId' = clusterId + 1
    /\ loopI' = loopI + 1
    /\ pc' = "dbscan_loop"
    /\ UNCHANGED <<err, data, k, clusters, labels, minPts>>
    /\ UNCHANGED <<eps, noise, seedSet, visited, neighbors, nbrPos, kmVars, hcVars, opVars, restVars>>

DbscanReturn ==
    /\ pc = "dbscan_loop" /\ loopI >= Len(data)
    /\ pc' = "dbscan_done"
    /\ UNCHANGED <<err, data, k, clusters, labels, minPts, loopI, kmVars, hcVars, dbVars, opVars, restVars>>

(* dbscan of the library *)
LibDbscanInit ==
    /\ pc = "lib_dbscan"
    /\ labels' = [p \in 1..Len(data) |-> -1]
    /\ visited' = [p \in 1..Len(data) |-> FALSE]
    /\ clusterId' = 0
    /\ loopI' = 0
    /\ pc' = "lib_dbscan_loop"
    /\ UNCHANGED <<err, data, k, clusters, minPts, eps, noise, seedSet, neighbors, nbrPos>>
    /\ UNCHANGED <<kmVars, hcVars, opVars, restVars>>

\* if (visited[i]) continue
LibDbscanSkip ==
    /\ pc = "lib_dbscan_loop" /\ loopI < Len(data)
    /\ At(visited, loopI)
    /\ loopI' = loopI + 1
    /\ UNCHANGED <<pc, err, data, k, clusters, labels, minPts, kmVars, hcVars, dbVars, opVars, restVars>>

\* neighbors.length < minPts: labels[i] = -1
LibDbscanNoise ==
    /\ pc = "lib_dbscan_loop" /\ loopI < Len(data)
    /\ ~At(visited, loopI)
    /\ TooFewNeighbors(regionQuery(data, loopI, eps), minPts)
    /\ visited' = SetAt(visited, loopI, TRUE)
    /\ labels' = SetAt(labels, loopI, -1)
    /\ loopI' = loopI + 1
    /\ UNCHANGED <<pc, err, data, k, clusters, minPts>>
    /\ UNCHANGED <<eps, noise, clusterId, seedSet, neighbors, nbrPos, kmVars, hcVars, opVars, restVars>>

\* expandCluster is entered: labels[pointIdx] = clusterId, i = 0
LibDbscanOpen ==
    /\ pc = "lib_dbscan_loop" /\ loopI < Len(data)
    /\ ~At(visited, loopI)
    /\ ~TooFewNeighbors(regionQuery(data, loopI, eps), minPts)
    /\ visited' = SetAt(visited, loopI, TRUE)
    /\ labels' = SetAt(labels, loopI, clusterId)
    /\ neighbors' = regionQuery(data, loopI, eps)
    /\ nbrPos' = 0
    /\ pc' = "lib_dbscan_expand"
    /\ UNCHANGED <<err, data, k, clusters, minPts, loopI>>
    /\ UNCHANGED <<eps, noise, clusterId, seedSet, kmVars, hcVars, opVars, restVars>>

\* one pass of while (i < neighbors.length) of expandCluster
LibDbscanExpand ==
    /\ pc = "lib_dbscan_expand" /\ nbrPos < Len(neighbors)
    /\ LET neighborIdx == At(neighbors, nbrPos)
           neighborNeighbors == regionQuery(data, neighborIdx, eps)
       IN /\ IF ~At(visited, neighborIdx)
             THEN /\ visited' = SetAt(visited, neighborIdx, TRUE)
                  /\ neighbors' = IF Len(neighborNeighbors) >= minPts
                                  THEN neighbors \o neighborNeighbors
                                  ELSE neighbors
             ELSE UNCHANGED <<visited, neighbors>>
          /\ labels' = IF At(labels, neighborIdx) = -1
                       THEN SetAt(labels, neighborIdx, clusterId)
                       ELSE labels
    /\ nbrPos' = nbrPos + 1
    /\ UNCHANGED <<pc, err, data, k, clusters, minPts, loopI>>
    /\ UNCHANGED <<eps, noise, clusterId, seedSet, kmVars, hcVars, opVars, restVars>>

\* expandCluster returns: clusterId++ and the outer loop goes on
LibDbscanClose ==
    /\ pc = "lib_dbscan_expand" /\ nbrPos >= Len(neighbors)
    /\ clusterId' = clusterId + 1
    /\ loopI' = loopI + 1
    /\ pc' = "lib_dbscan_loop"
    /\ UNCHANGED <<err, data, k, clusters, labels, minPts>>
    /\ UNCHANGED <<eps, noise, seedSet, visited, neighbors, nbrPos, kmVars, hcVars, opVars, restVars>>

LibDbscanReturn ==
    /\ pc = "lib_dbscan_loop" /\ loopI >= Len(data)
    /\ pc' = "lib_dbscan_done"
    /\ UNCHANGED <<err, data, k, clusters, labels, minPts, loopI, kmVars, hcVars, dbVars, opVars, restVars>>

MaxEps == MaxCoord + 1

\* radii of the calls: 0..MaxEps, 15 (larger than every distance of ScenarioData)
EpsValues == (0..MaxEps) \cup {15}

\* a row (row 0, at 2) within eps = 1 of a core row on either side (rows 3
\* and 4, at 1 and 3) that is not core itself when minPts = 3
BorderData == <<(<<2>>), (<<0>>), (<<0>>), (<<1>>), (<<3>>), (<<4>>), (<<4>>)>>

DbscanInitState ==
    /\ pc \in {"dbscan", "lib_dbscan"}
    /\ err = "none"
    /\ data \in DataSets \cup {BorderData}
    /\ eps \in EpsValues
    /\ minPts \in 0..(Len(data) + 1)
    /\ k = 0
    /\ clusters = <<>>
    /\ labels = <<>>
    /\ loopI = 0
    /\ noise = <<>>
    /\ clusterId = 0
    /\ seedSet = <<>>
    /\ visited = <<>>
    /\ neighbors = <<>>
    /\ nbrPos = 0
    /\ KMeansIdle /\ HierIdle /\ OpticsIdle /\ RestIdle

DbscanNext ==
    \/ DbscanInit \/ DbscanSkip \/ DbscanNoise \/ DbscanOpen
    \/ DbscanExpand \/ DbscanClose \/ DbscanReturn
    \/ LibDbscanInit \/ LibDbscanSkip \/ LibDbscanNoise \/ LibDbscanOpen
    \/ LibDbscanExpand \/ LibDbscanClose \/ LibDbscanReturn

SpecDbscan == DbscanInitState /\ [][DbscanNext]_vars

(***************************************************************************)
(* Properties of dbscan.                                                   *)
(***************************************************************************)
DbscanReturned == pc \in {"dbscan_done", "lib_dbscan_done"}

\* the label sequence the call returns
DbscanLabels == IF pc = "dbscan_done" THEN clusters ELSE labels

NoisePoints(labs) == {p \in 1..Len(labs) : labs[p] = -1}

ClusterIds(labs) == {labs[p] : p \in 1..Len(labs)} \ {-1}

\* eps is larger than every pairwise distance of the data
EpsAboveMaxDistance ==
    \A p, q \in 0..(Len(data) - 1) :
        RLess(SqDist(RatVec(At(data, p)), RatVec(At(data, q))), <<eps * eps, 1>>)

OneClusterNoNoise ==
    /\ Cardinality(ClusterIds(DbscanLabels)) = 1
    /\ NoisePoints(DbscanLabels) = {}

\* the largest neighbour count a row can reach: the route's getNeighbors leaves
\* the row itself out, the library's regionQuery counts it
MaxNeighbors == IF pc = "dbscan_done" THEN Len(data) - 1 ELSE Len(data)

\* C6 as stated: with eps larger than the largest pairwise distance, any
\* n >= 1 and any minPts >= 1, dbscan returns exactly one cluster and no
\* point labelled -1.
C6_OneClusterAnyMinPts ==
    (DbscanReturned /\ EpsAboveMaxDistance /\ minPts >= 1) => OneClusterNoNoise

\* C6 amended: with eps larger than the largest pairwise distance and
\* 1 <= minPts <= the number of neighbours a row can have (n - 1 in the train
\* route, n in the library), dbscan returns exactly one cluster and no point
\* labelled -1.
C6_OneClusterWhenReachable ==
    (DbscanReturned /\ EpsAboveMaxDistance /\ minPts >= 1 /\ minPts <= MaxNeighbors)
        => OneClusterNoNoise

C6_Witness ==
    /\ DbscanReturned /\ EpsAboveMaxDistance
    /\ Len(data) >= 3 /\ minPts = MaxNeighbors
    /\ RowsDistinct(data)
    /\ OneClusterNoNoise

\* C7: dbscan with minPts greater than the number of rows labels every point
\* -1 and opens no cluster, for any eps, in both implementations.
C7_AllNoise ==
    (DbscanReturned /\ minPts > Len(data)) =>
        /\ \A p \in 1..Len(data) : DbscanLabels[p] = -1
        /\ clusterId = 0

C7_Witness ==
    /\ DbscanReturned /\ minPts > Len(data)
    /\ Len(data) >= 2 /\ EpsAboveMaxDistance
    /\ \A p \in 1..Len(data) : DbscanLabels[p] = -1

\* the rows chained to p by steps of at most eps
RECURSIVE Grow(_, _, _)
Grow(m, e, S) ==
    LET T == S \cup {q \in 0..(Len(m) - 1) : \E p \in S : WithinEps(m, p, q, e)}
    IN IF T = S THEN S ELSE Grow(m, e, T)

Group(p) == Grow(data, eps, {p})

Groups == {Group(p) : p \in 0..(Len(data) - 1)}

\* every row has at least minPts other rows within eps
EveryPointDense ==
    \A p \in 0..(Len(data) - 1) :
        Cardinality({q \in 0..(Len(data) - 1) : q # p /\ WithinEps(data, p, q, eps)})
            >= minPts

\* C8: when every point has at least minPts other points within eps, dbscan
\* returns exactly one cluster per eps-connected group and no noise point; on
\* [[0,0],[0,1],[10,10],[10,11]] with eps = 2, minPts = 1: 2 clusters, 0 noise.
C8_OneClusterPerGroup ==
    (DbscanReturned /\ EveryPointDense) =>
        /\ NoisePoints(DbscanLabels) = {}
        /\ pc = "dbscan_done" => noise = <<>>
        /\ \A p, q \in 0..(Len(data) - 1) :
              (At(DbscanLabels, p) = At(DbscanLabels, q)) <=> (q \in Group(p))
        /\ Cardinality(ClusterIds(DbscanLabels)) = Cardinality(Groups)
        /\ (data = ScenarioData /\ eps = 2 /\ minPts = 1) =>
              Cardinality(ClusterIds(DbscanLabels)) = 2

C8_Witness ==
    /\ DbscanReturned /\ data = ScenarioData /\ eps = 2 /\ minPts = 1
    /\ EveryPointDense
    /\ DbscanLabels = <<0, 0, 1, 1>>

(***************************************************************************)
(* optics (library).  coreDistance, reachabilityDistance and the reachDist *)
(* of a seed hold squared distances; maxEps is a rational or Infinity and  *)
(* is squared where it is compared.  A coreDistance read past the sorted   *)
(* distances (distances[minPts - 2] with minPts < 2) is "undefined", and   *)
(* every comparison with it is false.                                      *)
(***************************************************************************)
Squared(x) == IF x = Infinity THEN Infinity ELSE RMul(x, x)

\* x put into the ascending sequence sorted, after the entries not larger
InsertNumber(sorted, x) ==
    LET pos == Cardinality({q \in 1..Len(sorted) : RLeq(sorted[q], x)})
    IN SubSeq(sorted, 1, pos) \o <<x>> \o SubSeq(sorted, pos + 1, Len(sorted))

\* distances.sort((a, b) => a - b)
RECURSIVE SortNumbers(_)
SortNumbers(s) ==
    IF s = <<>> THEN <<>>
    ELSE InsertNumber(SortNumbers(SubSeq(s, 1, Len(s) - 1)), s[Len(s)])

\* seed x put into the sorted seeds, after the seeds of no larger reachDist
InsertSeed(sorted, x) ==
    LET pos == Cardinality({q \in 1..Len(sorted) : RLeq(sorted[q].reachDist, x.reachDist)})
    IN SubSeq(sorted, 1, pos) \o <<x>> \o SubSeq(sorted, pos + 1, Len(sorted))

\* seeds.sort((a, b) => a.reachDist - b.reachDist): stable, ascending
RECURSIVE SortSeeds(_)
SortSeeds(s) ==
    IF s = <<>> THEN <<>>
    ELSE InsertSeed(SortSeeds(SubSeq(s, 1, Len(s) - 1)), s[Len(s)])

\* the distances from row p to the other rows, from row q on
RECURSIVE DistancesFrom(_, _, _)
DistancesFrom(m, p, q) ==
    IF q >= Len(m) THEN <<>>
    ELSE (IF p # q THEN <<SqDist(RatVec(At(m, p)), RatVec(At(m, q)))>> ELSE <<>>)
         \o DistancesFrom(m, p, q + 1)

\* the sorted distances from row p to the other rows
SortedDistances(m, p) == SortNumbers(DistancesFrom(m, p, 0))

\* the loop that fills coreDistance
CoreDistances(m, mp) ==
    [p \in 1..Len(m) |->
        LET distances == SortedDistances(m, p - 1) IN
        IF Len(distances) >= mp - 1
        THEN IF mp - 2 >= 0 /\ mp - 2 < Len(distances)
             THEN At(distances, mp - 2)
             ELSE "undefined"
        ELSE Infinity]

\* coreDistance[p] <= maxEps
CoreWithin(core, p, me) ==
    /\ At(core, p) # "undefined"
    /\ RLeq(At(core, p), Squared(me))

RMax(x, y) == IF RLess(x, y) THEN y ELSE x

\* update: <<reachabilityDistance, seeds>> after the scan over the rows
RECURSIVE Update(_, _, _, _, _, _, _, _)
Update(pointIdx, m, sds, proc, reach, core, me, q) ==
    IF q >= Len(m) THEN <<reach, sds>>
    ELSE LET dist == SqDist(RatVec(At(m, pointIdx)), RatVec(At(m, q)))
             newReachDist == RMax(At(core, pointIdx), dist)
         IN IF /\ ~At(proc, q)
               /\ RLeq(dist, Squared(me))
               /\ RLess(newReachDist, At(reach, q))
            THEN Update(pointIdx, m, Append(sds, [point |-> q, reachDist |-> newReachDist]),
                        proc, SetAt(reach, q, newReachDist), core, me, q + 1)
            ELSE Update(pointIdx, m, sds, proc, reach, core, me, q + 1)

\* reachability at most the threshold 0.5 of extractClusters
BelowThreshold(reach, p) == RLeq(At(reach, p), <<1, 4>>)

\* extractClusters: the loop over orderedPoints from position pos
RECURSIVE ExtractFrom(_, _, _, _, _)
ExtractFrom(reach, ordered, labs, pos, cid) ==
    IF pos >= Len(ordered) THEN labs
    ELSE IF BelowThreshold(reach, At(ordered, pos)) /\ At(labs, At(ordered, pos)) = -1
    THEN LET stop == CHOOSE j \in (pos + 1)..Len(ordered) :
                        /\ j = Len(ordered) \/ ~BelowThreshold(reach, At(ordered, j))
                        /\ \A j2 \in (pos + 1)..(j - 1) :
                              BelowThreshold(reach, At(ordered, j2))
             run == {At(ordered, j) : j \in pos..(stop - 1)}
         IN ExtractFrom(reach, ordered,
                        [p \in 1..Len(labs) |-> IF (p - 1) \in run THEN cid ELSE labs[p]],
                        stop, cid + 1)
    ELSE ExtractFrom(reach, ordered, labs, pos + 1, cid)

extractClusters(reach, ordered) ==
    ExtractFrom(reach, ordered, [p \in 1..Len(ordered) |-> -1], 0, 0)

OpticsInit ==
    /\ pc = "optics"
    /\ processed' = [p \in 1..Len(data) |-> FALSE]
    /\ reachabilityDistance' = [p \in 1..Len(data) |-> Infinity]
    /\ coreDistance' = CoreDistances(data, minPts)
    /\ orderedPoints' = <<>>
    /\ seeds' = <<>>
    /\ loopI' = 0
    /\ pc' = "optics_loop"
    /\ UNCHANGED <<err, data, k, clusters, labels, minPts, maxEps, kmVars, hcVars, dbVars, restVars>>

\* if (!processed[i]) is false
OpticsSkip ==
    /\ pc = "optics_loop" /\ loopI < Len(data)
    /\ At(processed, loopI)
    /\ loopI' = loopI + 1
    /\ UNCHANGED <<pc, err, data, k, clusters, labels, minPts, kmVars, hcVars, dbVars, opVars, restVars>>

\* processPoint is entered for row i, up to its while loop
OpticsProcessPoint ==
    /\ pc = "optics_loop" /\ loopI < Len(data)
    /\ ~At(processed, loopI)
    /\ LET proc == SetAt(processed, loopI, TRUE)
           upd == Update(loopI, data, <<>>, proc, reachabilityDistance, coreDistance, maxEps, 0)
       IN /\ processed' = proc
          /\ orderedPoints' = Append(orderedPoints, loopI)
          /\ IF CoreWithin(coreDistance, loopI, maxEps)
             THEN /\ reachabilityDistance' = upd[1]
                  /\ seeds' = upd[2]
             ELSE /\ reachabilityDistance' = reachabilityDistance
                  /\ seeds' = <<>>
    /\ pc' = "optics_seeds"
    /\ UNCHANGED <<err, data, k, clusters, labels, minPts, loopI, maxEps, coreDistance>>
    /\ UNCHANGED <<kmVars, hcVars, dbVars, restVars>>

\* one pass of while (seeds.length > 0) of processPoint
OpticsSeed ==
    /\ pc = "optics_seeds" /\ Len(seeds) > 0
    /\ LET sorted == SortSeeds(seeds)
           current == Head(sorted)
           proc == SetAt(processed, current.point, TRUE)
           upd == Update(current.point, data, Tail(sorted), proc,
                         reachabilityDistance, coreDistance, maxEps, 0)
       IN /\ processed' = proc
          /\ orderedPoints' = Append(orderedPoints, current.point)
          /\ IF CoreWithin(coreDistance, current.point, maxEps)
             THEN /\ reachabilityDistance' = upd[1]
                  /\ seeds' = upd[2]
             ELSE /\ reachabilityDistance' = reachabilityDistance
                  /\ seeds' = Tail(sorted)
    /\ UNCHANGED <<pc, err, data, k, clusters, labels, minPts, loopI, maxEps, coreDistance>>
    /\ UNCHANGED <<kmVars, hcVars, dbVars, restVars>>

\* processPoint returns and the outer loop goes on
OpticsSeedsDone ==
    /\ pc = "optics_seeds" /\ Len(seeds) = 0
    /\ loopI' = loopI + 1
    /\ pc' = "optics_loop"
    /\ UNCHANGED <<err, data, k, clusters, labels, minPts, kmVars, hcVars, dbVars, opVars, restVars>>

OpticsReturn ==
    /\ pc = "optics_loop" /\ loopI >= Len(data)
    /\ labels' = extractClusters(reachabilityDistance, orderedPoints)
    /\ pc' = "optics_done"
    /\ UNCHANGED <<err, data, k, clusters, minPts, loopI, kmVars, hcVars, dbVars, opVars, restVars>>

\* maxEps of the calls: the default Infinity, or a radius 0..MaxEps
MaxEpsValues == {Infinity} \cup {<<e, 1>> : e \in 0..MaxEps}

OpticsInitState ==
    /\ pc = "optics"
    /\ err = "none"
    /\ data \in DataSets
    /\ minPts \in 1..(Len(data) + 1)
    /\ maxEps \in MaxEpsValues
    /\ k = 0
    /\ clusters = <<>>
    /\ labels = <<>>
    /\ loopI = 0
    /\ processed = <<>>
    /\ reachabilityDistance = <<>>
    /\ coreDistance = <<>>
    /\ orderedPoints = <<>>
    /\ seeds = <<>>
    /\ KMeansIdle /\ HierIdle /\ DbscanIdle /\ RestIdle

OpticsNext ==
    \/ OpticsInit \/ OpticsSkip \/ OpticsProcessPoint
    \/ OpticsSeed \/ OpticsSeedsDone \/ OpticsReturn

SpecOptics == OpticsInitState /\ [][OpticsNext]_vars

(***************************************************************************)
(* Properties of optics.                                                   *)
(***************************************************************************)
Occurrences(s, x) == Cardinality({q \in 1..Len(s) : s[q] = x})

\* C1: every clusterer returns exactly one label per input row.
C1_OneLabelPerRow ==
    /\ pc \in {"optics_done", "lib_dbscan_done", "hier_done"} => Len(labels) = Len(data)
    /\ pc \in {"kmeans_done", "dbscan_done"} => Len(clusters) = Len(data)

\* C2: when optics returns, orderedPoints holds every row index 0..n-1
\* exactly once.
C2_TotalOrdering ==
    pc = "optics_done" =>
        \A p \in 0..(Len(data) - 1) : Occurrences(orderedPoints, p) = 1

(***************************************************************************)
(* meanShift (library).  bandwidth is an integer.  A distance is within a  *)
(* radius r when r is not negative and the squared distance is at most r   *)
(* squared.                                                                *)
(***************************************************************************)
msMaxIterations == 100

\* euclideanDistance(a, b) <= r for a rational r
DistanceWithin(a, b, r) == r[1] >= 0 /\ RLeq(SqDist(a, b), Square(r))

\* nearbyPoints: the rows (1-based positions) within bandwidth of center
NearbyPoints(m, center, bw) ==
    {i \in 1..Len(m) : DistanceWithin(center, RatVec(m[i]), <<bw, 1>>)}

\* one pass of the inner loop body: the mean of the nearby rows, or the
\* center itself when no row is nearby
ShiftedCenter(m, center, bw) ==
    LET nearbyPoints == NearbyPoints(m, center, bw) IN
    IF nearbyPoints = {} THEN center
    ELSE [d \in 1..Len(m[1]) |-> Rat(SumOver(m, nearbyPoints, d), Cardinality(nearbyPoints))]

\* euclideanDistance(center, newCenter) > 1e-6.  Coordinates are rationals
\* whose numerators and denominators are below 2^31, so a squared distance
\* that is not zero is above 1e-12.
Moved(center, newCenter) == SqDist(center, newCenter)[1] > 0

RECURSIVE RSumOver(_, _, _)
RSumOver(cs, S, d) ==
    IF S = {} THEN <<0, 1>>
    ELSE LET i == CHOOSE x \in S : TRUE IN RAdd(cs[i][d], RSumOver(cs, S \ {i}, d))

\* the outer loop of mergeCenters from center i (1-based) on; used is the
\* set of centers already merged
RECURSIVE MergeFrom(_, _, _, _)
MergeFrom(cs, threshold, used, i) ==
    IF i > Len(cs) THEN <<>>
    ELSE IF i \in used THEN MergeFrom(cs, threshold, used, i + 1)
    ELSE LET cluster == {i} \cup {j \in (i + 1)..Len(cs) :
                                     j \notin used /\ DistanceWithin(cs[i], cs[j], threshold)}
             mergedCenter == [d \in 1..Len(cs[1]) |->
                                 RMul(RSumOver(cs, cluster, d), <<1, Cardinality(cluster)>>)]
         IN  <<mergedCenter>> \o MergeFrom(cs, threshold, used \cup cluster, i + 1)

mergeCenters(cs, threshold) == MergeFrom(cs, threshold, {}, 1)

MeanShiftInit ==
    /\ pc = "meanshift"
    /\ IF Len(data) = 0
       THEN \* data[0] is undefined: reading its length throws
            /\ pc' = "threw"
            /\ err' = "TypeError"
            /\ UNCHANGED <<centers, labels>>
       ELSE /\ centers' = [i \in 1..Len(data) |-> RatVec(data[i])]
            /\ labels' = [i \in 1..Len(data) |-> 0]
            /\ pc' = "meanshift_loop"
            /\ err' = err
    /\ iter' = 0
    /\ UNCHANGED <<data, k, clusters, minPts, loopI, bandwidth>>
    /\ UNCHANGED <<kmVars, hcVars, dbVars, opVars, evVars, drVars, trVars, gmVars, runs, uiVars>>

\* one pass of the for loop over iter; the loop ends on convergence or when
\* iter reaches maxIterations
MeanShiftIterate ==
    /\ pc = "meanshift_loop"
    /\ centers' = [i \in 1..Len(centers) |-> ShiftedCenter(data, centers[i], bandwidth)]
    /\ LET converged == \A i \in 1..Len(centers) : ~Moved(centers[i], centers'[i]) IN
       IF converged \/ iter + 1 >= msMaxIterations
       THEN pc' = "meanshift_merge" /\ iter' = iter
       ELSE pc' = pc /\ iter' = iter + 1
    /\ UNCHANGED <<err, data, k, clusters, labels, minPts, loopI, bandwidth>>
    /\ UNCHANGED <<kmVars, hcVars, dbVars, opVars, evVars, drVars, trVars, gmVars, runs, uiVars>>

\* mutant of MeanShiftReturn: the rows are assigned to the nearest of the
\* centers as they were before merging
MeanShiftReturn_BeforeMerge ==
    /\ pc = "meanshift_merge"
    /\ centroids' = mergeCenters(centers, Rat(bandwidth, 2))
    /\ labels' = [i \in 1..Len(data) |-> ClosestCentroid(RatVec(data[i]), centers)]
    /\ pc' = "meanshift_done"
    /\ UNCHANGED <<err, data, k, clusters, minPts, loopI, msVars>>
    /\ UNCHANGED <<centroidRow, changed, iteration, inertia, prevInertia>>
    /\ UNCHANGED <<hcVars, dbVars, opVars, evVars, drVars, trVars, gmVars, runs, uiVars>>

\* mergeCenters, the assignment loop and the return
MeanShiftReturn ==
    /\ pc = "meanshift_merge"
    /\ centroids' = mergeCenters(centers, Rat(bandwidth, 2))
    /\ labels' = [i \in 1..Len(data) |-> ClosestCentroid(RatVec(data[i]), centroids')]
    /\ pc' = "meanshift_done"
    /\ UNCHANGED <<err, data, k, clusters, minPts, loopI, msVars>>
    /\ UNCHANGED <<centroidRow, changed, iteration, inertia, prevInertia>>
    /\ UNCHANGED <<hcVars, dbVars, opVars, evVars, drVars, trVars, gmVars, runs, uiVars>>

\* bandwidths of the calls
BandwidthValues == (-1)..(MaxCoord + 1)

MeanShiftInitState ==
    /\ pc = "meanshift"
    /\ err = "none"
    /\ data \in DataSets \cup {<<>>}
    /\ bandwidth \in BandwidthValues
    /\ centers = <<>>
    /\ iter = 0
    /\ k = 0
    /\ clusters = <<>>
    /\ labels = <<>>
    /\ minPts = 0
    /\ loopI = 0
    /\ KMeansIdle /\ HierIdle /\ DbscanIdle /\ OpticsIdle
    /\ EvalIdle /\ SelectIdle /\ TrainIdle /\ GmmIdle /\ PairIdle /\ UiIdle

MeanShiftNext == MeanShiftInit \/ MeanShiftIterate \/ MeanShiftReturn

SpecMeanShift == MeanShiftInitState /\ [][MeanShiftNext]_vars

(***************************************************************************)
(* The density parameters of the library: dbscan and meanShift.            *)
(***************************************************************************)
DensityInitState == DbscanInitState \/ MeanShiftInitState

DensityNext == DbscanNext \/ MeanShiftNext

SpecDensity == DensityInitState /\ [][DensityNext]_vars

\* C11: a call of the library's dbscan with eps <= 0 or minPts < 1, and a
\* call of meanShift with bandwidth <= 0, ends with an InvalidParameter
\* failure and without labels; it never returns a clustering.
C11_InvalidParameterRejected ==
    /\ (pc = "lib_dbscan_done" /\ (eps <= 0 \/ minPts < 1))
           => (err = "InvalidParameter" /\ labels = <<>>)
    /\ (pc = "meanshift_done" /\ bandwidth <= 0)
           => (err = "InvalidParameter" /\ labels = <<>>)

(***************************************************************************)
(* Evaluation metrics (src/src/lib/evaluation.ts) and the silhouette score *)
(* of the train route.  The metrics are run on one-column matrices, where  *)
(* euclideanDistance(a, b) is |a[0] - b[0]| and stays rational.            *)
(*                                                                         *)
(* Numbers of the metrics are IEEE values without rounding: a rational     *)
(* <<num, den>> with den > 0, Infinity <<1, 0>>, -Infinity <<-1, 0>> and   *)
(* NaN <<0, 0>>.  Zero is +0.                                              *)
(***************************************************************************)
NaN == <<0, 0>>

NegInfinity == <<-1, 0>>

IsNaN(x) == x = NaN

XNeg(x) == <<-x[1], x[2]>>

XAdd(x, y) ==
    IF IsNaN(x) \/ IsNaN(y) THEN NaN
    ELSE IF x[2] = 0 /\ y[2] = 0 THEN (IF x = y THEN x ELSE NaN)
    ELSE IF x[2] = 0 THEN x
    ELSE IF y[2] = 0 THEN y
    ELSE RAdd(x, y)

XSub(x, y) == XAdd(x, XNeg(y))

\* x / y
XDiv(x, y) ==
    IF IsNaN(x) \/ IsNaN(y) THEN NaN
    ELSE IF y[2] = 0 THEN (IF x[2] = 0 THEN NaN ELSE <<0, 1>>)
    ELSE IF y[1] = 0 THEN (IF x[1] = 0 THEN NaN
                           ELSE IF x[1] > 0 THEN Infinity ELSE NegInfinity)
    ELSE IF x[2] = 0 THEN (IF (x[1] > 0) = (y[1] > 0) THEN Infinity ELSE NegInfinity)
    ELSE IF y[1] > 0 THEN Rat(x[1] * y[2], x[2] * y[1])
    ELSE Rat(-(x[1] * y[2]), -(x[2] * y[1]))

\* Math.max(x, y), Math.min(x, y)
XMax(x, y) == IF IsNaN(x) \/ IsNaN(y) THEN NaN ELSE IF RLess(x, y) THEN y ELSE x

XMin(x, y) == IF IsNaN(x) \/ IsNaN(y) THEN NaN ELSE IF RLess(y, x) THEN y ELSE x

\* x > y, x < y; a comparison with NaN is false
XGreater(x, y) == ~IsNaN(x) /\ ~IsNaN(y) /\ RLess(y, x)

XLess(x, y) == ~IsNaN(x) /\ ~IsNaN(y) /\ RLess(x, y)

\* the sum of the first q entries of s, added left to right
RECURSIVE XSumTo(_, _)
XSumTo(s, q) == IF q = 0 THEN <<0, 1>> ELSE XAdd(XSumTo(s, q - 1), s[q])

\* s.reduce((sum, x) => sum + x, 0)
XSum(s) == XSumTo(s, Len(s))

\* Math.round(x * scale) / scale; Math.round rounds a half up
XRound(x, scale) ==
    IF x[2] = 0 THEN x
    ELSE Rat((2 * x[1] * scale + x[2]) \div (2 * x[2]), scale)

\* euclideanDistance(a, b) of two one-column vectors of rationals
Distance(a, b) == LET diff == RSub(a[1], b[1]) IN <<Abs(diff[1]), diff[2]>>

RECURSIVE DistinctFrom(_, _, _)
DistinctFrom(s, q, acc) ==
    IF q > Len(s) THEN acc
    ELSE DistinctFrom(s, q + 1, IF Contains(acc, s[q]) THEN acc ELSE Append(acc, s[q]))

\* [...new Set(labels)]: the distinct labels in order of first occurrence
Distinct(s) == DistinctFrom(s, 1, <<>>)

\* data.filter((_, idx) => labels[idx] === cluster): the rows (1-based)
RowsOf(m, labs, cluster) == {idx \in 1..Len(m) : labs[idx] = cluster}

\* points.reduce((sum, point) => sum + euclideanDistance(p, point), 0) / points.length
MeanDistance(m, p, rows) ==
    XDiv(XSumTo([idx \in 1..Len(m) |->
                    IF idx \in rows THEN Distance(p, RatVec(m[idx])) ELSE <<0, 1>>], Len(m)),
         <<Cardinality(rows), 1>>)

\* mutant of TooFewClusters: only an empty label sequence is refused
TooFewClusters_OnlyEmpty(cl) == Len(cl) < 1

\* the guard of the three metrics: clusters.length <= 1
TooFewClusters(cl) == Len(cl) <= 1

\* a(i): mean distance to the other rows of the same cluster, 0 without any
SilhouetteA(m, labs, i) ==
    LET sameClusterPoints == RowsOf(m, labs, labs[i]) \ {i} IN
    IF sameClusterPoints # {}
    THEN MeanDistance(m, RatVec(m[i]), sameClusterPoints)
    ELSE <<0, 1>>

\* the loop over the other clusters from position q of cl on
RECURSIVE SilhouetteBFrom(_, _, _, _, _, _)
SilhouetteBFrom(m, labs, i, cl, q, b) ==
    IF q > Len(cl) THEN b
    ELSE IF cl[q] = labs[i] \/ RowsOf(m, labs, cl[q]) = {}
         THEN SilhouetteBFrom(m, labs, i, cl, q + 1, b)
         ELSE SilhouetteBFrom(m, labs, i, cl, q + 1,
                  XMin(b, MeanDistance(m, RatVec(m[i]), RowsOf(m, labs, cl[q]))))

\* b(i): least mean distance to the rows of another cluster
SilhouetteB(m, labs, i) == SilhouetteBFrom(m, labs, i, Distinct(labs), 1, Infinity)

\* s_i of evaluation.ts
SilhouetteS(a, b) == IF b = Infinity THEN <<0, 1>> ELSE XDiv(XSub(b, a), XMax(a, b))

SilhouetteInterpretation(score) ==
    IF XGreater(score, <<7, 10>>) THEN "Excellent clustering"
    ELSE IF XGreater(score, <<1, 2>>) THEN "Good clustering"
    ELSE IF XGreater(score, <<1, 4>>) THEN "Weak clustering"
    ELSE "Poor clustering"

calculateSilhouetteScore(m, labs) ==
    IF TooFewClusters(Distinct(labs))
    THEN [metric |-> "silhouette_score", value |-> <<0, 1>>,
          interpretation |-> "Cannot calculate silhouette score with only one cluster"]
    ELSE LET totalScore == XSumTo([i \in 1..Len(m) |->
                               SilhouetteS(SilhouetteA(m, labs, i), SilhouetteB(m, labs, i))],
                                  Len(m))
             score == XDiv(totalScore, <<Len(m), 1>>)
         IN  [metric |-> "silhouette_score", value |-> XRound(score, 10000),
              interpretation |-> SilhouetteInterpretation(score)]

\* number of divisions a call of calculateSilhouetteScore performs
SilhouetteDivisions(m, labs) ==
    IF TooFewClusters(Distinct(labs)) THEN 0
    ELSE LET cl == Distinct(labs)
             perRow == [i \in 1..Len(m) |->
                 (IF RowsOf(m, labs, labs[i]) \ {i} # {} THEN 1 ELSE 0)
                 + Cardinality({q \in 1..Len(cl) :
                                   cl[q] # labs[i] /\ RowsOf(m, labs, cl[q]) # {}})
                 + (IF SilhouetteB(m, labs, i) = Infinity THEN 0 ELSE 1)]
         IN  RSum([i \in 1..Len(m) |-> <<perRow[i], 1>>])[1] + 2

\* the centroid of a set of rows: sum of the rows divided by their number
Centroid(m, rows) ==
    [d \in 1..Len(m[1]) |-> XDiv(<<SumOver(m, rows, d), 1>>, <<Cardinality(rows), 1>>)]

\* scatter of a cluster: mean distance of its rows to its centroid
Scatter(m, rows) == MeanDistance(m, Centroid(m, rows), rows)

\* maxRatio of cluster i: the loop over j from position q on
RECURSIVE MaxRatioFrom(_, _, _, _, _, _)
MaxRatioFrom(m, labs, cl, i, q, maxRatio) ==
    IF q > Len(cl) THEN maxRatio
    ELSE IF q = i THEN MaxRatioFrom(m, labs, cl, i, q + 1, maxRatio)
    ELSE LET rowsI == RowsOf(m, labs, cl[i])
             rowsJ == RowsOf(m, labs, cl[q])
             centerDistance == Distance(Centroid(m, rowsI), Centroid(m, rowsJ))
             ratio == XDiv(XAdd(Scatter(m, rowsI), Scatter(m, rowsJ)), centerDistance)
         IN  MaxRatioFrom(m, labs, cl, i, q + 1, XMax(maxRatio, ratio))

DaviesBouldinInterpretation(finalIndex) ==
    IF XLess(finalIndex, <<1, 1>>) THEN "Excellent clustering"
    ELSE IF XLess(finalIndex, <<2, 1>>) THEN "Good clustering"
    ELSE "Poor clustering"

calculateDaviesBouldinIndex(m, labs) ==
    LET cl == Distinct(labs) IN
    IF TooFewClusters(cl)
    THEN [metric |-> "davies_bouldin_index", value |-> <<0, 1>>,
          interpretation |-> "Cannot calculate Davies-Bouldin index with only one cluster"]
    ELSE LET dbIndex == XSum([i \in 1..Len(cl) |-> MaxRatioFrom(m, labs, cl, i, 1, <<0, 1>>)])
             finalIndex == XDiv(dbIndex, <<Len(cl), 1>>)
         IN  [metric |-> "davies_bouldin_index", value |-> XRound(finalIndex, 10000),
              interpretation |-> DaviesBouldinInterpretation(finalIndex)]

\* number of divisions a call of calculateDaviesBouldinIndex performs
DaviesBouldinDivisions(m, labs) ==
    LET cl == Distinct(labs) IN
    IF TooFewClusters(cl) THEN 0
    ELSE Len(cl) * (Len(m[1]) + 1) + Len(cl) * (Len(cl) - 1) + 2

CalinskiHarabaszInterpretation(chIndex) ==
    IF XGreater(chIndex, <<100, 1>>) THEN "Excellent clustering"
    ELSE IF XGreater(chIndex, <<50, 1>>) THEN "Good clustering"
    ELSE IF XGreater(chIndex, <<20, 1>>) THEN "Fair clustering"
    ELSE "Poor clustering"

calculateCalinskiHarabaszIndex(m, labs) ==
    LET cl == Distinct(labs) IN
    IF TooFewClusters(cl)
    THEN [metric |-> "calinski_harabasz_index", value |-> <<0, 1>>,
          interpretation |-> "Cannot calculate Calinski-Harabasz index with only one cluster"]
    ELSE LET overallCentroid == Centroid(m, 1..Len(m))
             bcss == XSum([q \in 1..Len(cl) |->
                        LET rows == RowsOf(m, labs, cl[q]) IN
                        RMul(<<Cardinality(rows), 1>>, SqDist(Centroid(m, rows), overallCentroid))])
             wcss == XSumTo([idx \in 1..Len(m) |->
                        SqDist(RatVec(m[idx]), Centroid(m, RowsOf(m, labs, labs[idx])))], Len(m))
             chIndex == XDiv(XDiv(bcss, <<Len(cl) - 1, 1>>),
                             XDiv(wcss, <<Len(m) - Len(cl), 1>>))
         IN  [metric |-> "calinski_harabasz_index", value |-> XRound(chIndex, 100),
              interpretation |-> CalinskiHarabaszInterpretation(chIndex)]

\* number of divisions a call of calculateCalinskiHarabaszIndex performs
CalinskiHarabaszDivisions(m, labs) ==
    LET cl == Distinct(labs) IN
    IF TooFewClusters(cl) THEN 0
    ELSE Len(m[1]) + 2 * Len(cl) * Len(m[1]) + 4

\* s of the train route, as it is added to totalScore: isNaN(s) ? 0 : s
RouteSilhouetteS(a, b) ==
    LET s == XDiv(XSub(b, a), XMax(a, b)) IN IF IsNaN(s) THEN <<0, 1>> ELSE s

\* calculateSilhouetteScore of the train route: no guard, NaN counted as 0
routeSilhouetteScore(m, labs) ==
    LET s == [i \in 1..Len(m) |->
                 RouteSilhouetteS(SilhouetteA(m, labs, i), SilhouetteB(m, labs, i))]
    IN  XDiv(XSumTo(s, Len(m)), <<Len(m), 1>>)

\* a call of one metric: the function called, its result and its divisions
EvalSilhouette ==
    /\ pc = "evaluate"
    /\ metric' = "calculateSilhouetteScore"
    /\ result' = calculateSilhouetteScore(data, labels)
    /\ divisions' = SilhouetteDivisions(data, labels)
    /\ pc' = "evaluate_done"
    /\ UNCHANGED <<err, data, k, clusters, labels, minPts, loopI>>
    /\ UNCHANGED <<kmVars, hcVars, dbVars, opVars, msVars, drVars, trVars, gmVars, runs, uiVars>>

EvalDaviesBouldin ==
    /\ pc = "evaluate"
    /\ metric' = "calculateDaviesBouldinIndex"
    /\ result' = calculateDaviesBouldinIndex(data, labels)
    /\ divisions' = DaviesBouldinDivisions(data, labels)
    /\ pc' = "evaluate_done"
    /\ UNCHANGED <<err, data, k, clusters, labels, minPts, loopI>>
    /\ UNCHANGED <<kmVars, hcVars, dbVars, opVars, msVars, drVars, trVars, gmVars, runs, uiVars>>

EvalCalinskiHarabasz ==
    /\ pc = "evaluate"
    /\ metric' = "calculateCalinskiHarabaszIndex"
    /\ result' = calculateCalinskiHarabaszIndex(data, labels)
    /\ divisions' = CalinskiHarabaszDivisions(data, labels)
    /\ pc' = "evaluate_done"
    /\ UNCHANGED <<err, data, k, clusters, labels, minPts, loopI>>
    /\ UNCHANGED <<kmVars, hcVars, dbVars, opVars, msVars, drVars, trVars, gmVars, runs, uiVars>>

\* evaluateClustering: the three results in order
EvalAll ==
    /\ pc = "evaluate"
    /\ metric' = "evaluateClustering"
    /\ result' = <<calculateSilhouetteScore(data, labels),
                   calculateDaviesBouldinIndex(data, labels),
                   calculateCalinskiHarabaszIndex(data, labels)>>
    /\ divisions' = SilhouetteDivisions(data, labels) + DaviesBouldinDivisions(data, labels)
                        + CalinskiHarabaszDivisions(data, labels)
    /\ pc' = "evaluate_done"
    /\ UNCHANGED <<err, data, k, clusters, labels, minPts, loopI>>
    /\ UNCHANGED <<kmVars, hcVars, dbVars, opVars, msVars, drVars, trVars, gmVars, runs, uiVars>>

\* calculateSilhouetteScore of the train route; it returns the bare number
EvalRouteSilhouette ==
    /\ pc = "evaluate"
    /\ metric' = "route.calculateSilhouetteScore"
    /\ result' = routeSilhouetteScore(data, labels)
    /\ pc' = "evaluate_done"
    /\ UNCHANGED <<err, data, k, clusters, labels, minPts, loopI, divisions>>
    /\ UNCHANGED <<kmVars, hcVars, dbVars, opVars, msVars, drVars, trVars, gmVars, runs, uiVars>>

\* labels of the calls: two cluster ids and the noise label
LabelValues == {-1, 0, 1}

\* matrices of the calls: one column, up to MaxN rows in non-decreasing order
\* (every labelling of the rows is tried), and the matrix without rows
EvalData ==
    {m \in LineData : \A i \in 1..(Len(m) - 1) : m[i][1] <= m[i + 1][1]} \cup {<<>>}

\* a matrix and a label per row
EvalInitState ==
    /\ pc = "evaluate"
    /\ err = "none"
    /\ data \in EvalData
    /\ labels \in [1..Len(data) -> LabelValues]
    /\ metric = "none"
    /\ result = "none"
    /\ divisions = 0
    /\ k = 0
    /\ clusters = <<>>
    /\ minPts = 0
    /\ loopI = 0
    /\ KMeansIdle /\ HierIdle /\ DbscanIdle /\ OpticsIdle
    /\ MeanShiftIdle /\ SelectIdle /\ TrainIdle /\ GmmIdle /\ PairIdle /\ UiIdle

EvalNext ==
    \/ EvalSilhouette \/ EvalDaviesBouldin \/ EvalCalinskiHarabasz
    \/ EvalAll \/ EvalRouteSilhouette

SpecEval == EvalInitState /\ [][EvalNext]_vars

(***************************************************************************)
(* Properties of the metrics.                                              *)
(***************************************************************************)
EvalReturned == pc = "evaluate_done"

DistinctLabels == {labels[i] : i \in 1..Len(labels)}

NotApplicable ==
    {"Cannot calculate silhouette score with only one cluster",
     "Cannot calculate Davies-Bouldin index with only one cluster",
     "Cannot calculate Calinski-Harabasz index with only one cluster"}

\* C12: with fewer than 2 distinct labels, calculateSilhouetteScore,
\* calculateDaviesBouldinIndex and calculateCalinskiHarabaszIndex each return
\* value 0 with a 'Cannot calculate ...' interpretation, raise no error and
\* perform no division.
C12_NotApplicableBelowTwoClusters ==
    (/\ EvalReturned
     /\ metric \in {"calculateSilhouetteScore", "calculateDaviesBouldinIndex",
                    "calculateCalinskiHarabaszIndex"}
     /\ Cardinality(DistinctLabels) < 2)
        => /\ result.value = <<0, 1>>
           /\ result.interpretation \in NotApplicable
           /\ err = "none"
           /\ divisions = 0

\* a Davies-Bouldin call on three rows that all carry the same label
C12_Witness ==
    /\ EvalReturned
    /\ metric = "calculateDaviesBouldinIndex"
    /\ Len(labels) = 3
    /\ Cardinality(DistinctLabels) = 1
    /\ result.value = <<0, 1>>

\* the silhouette score a silhouette call returned
SilhouetteValue == IF metric = "calculateSilhouetteScore" THEN result.value ELSE result

InUnitRange(x) == ~IsNaN(x) /\ RLeq(<<-1, 1>>, x) /\ RLeq(x, <<1, 1>>)

\* C13: for a label sequence with at least 2 distinct labels (duplicate rows
\* and singleton clusters included) the silhouette score returned by either
\* calculateSilhouetteScore is a number in [-1, 1], never NaN.
C13_SilhouetteInRange ==
    (/\ EvalReturned
     /\ metric \in {"calculateSilhouetteScore", "route.calculateSilhouetteScore"}
     /\ Cardinality(DistinctLabels) >= 2)
        => InUnitRange(SilhouetteValue)

(***************************************************************************)
(* spectralClustering (library).  The similarity matrix and the Laplacian  *)
(* it builds are never read; labels and centroids are those of             *)
(* simpleKMeansForSpectral on the data.                                    *)
(***************************************************************************)
spectralMaxIterations == 100

SpectralInit ==
    /\ pc = "spectral"
    /\ IF Len(data) = 0
       THEN \* data[0] is undefined: reading its length throws
            /\ pc' = "threw"
            /\ err' = "TypeError"
            /\ UNCHANGED <<centroids, labels>>
       ELSE /\ \E choice \in [1..k -> 1..Len(data)] :
                  centroids' = [j \in 1..k |-> RatVec(data[choice[j]])]
            /\ labels' = [i \in 1..Len(data) |-> 0]
            /\ pc' = "spectral_loop"
            /\ err' = err
    /\ iter' = 0
    /\ UNCHANGED <<data, k, clusters, minPts, loopI, bandwidth, centers>>
    /\ UNCHANGED <<centroidRow, changed, iteration, inertia, prevInertia>>
    /\ UNCHANGED <<hcVars, dbVars, opVars, evVars, drVars, trVars, gmVars, runs, uiVars>>

\* one pass of the for loop over iter: break when the labels repeat, else
\* take the new labels and update the centroids
SpectralIterate ==
    /\ pc = "spectral_loop"
    /\ LET newLabels == Assign(data, centroids) IN
       IF newLabels = labels
       THEN /\ pc' = "spectral_done"
            /\ UNCHANGED <<labels, centroids, iter>>
       ELSE /\ labels' = newLabels
            /\ centroids' = UpdateCentroids(data, labels', centroids)
            /\ iter' = iter + 1
            /\ pc' = IF iter + 1 >= spectralMaxIterations THEN "spectral_done" ELSE pc
    /\ UNCHANGED <<err, data, k, clusters, minPts, loopI, bandwidth, centers>>
    /\ UNCHANGED <<centroidRow, changed, iteration, inertia, prevInertia>>
    /\ UNCHANGED <<hcVars, dbVars, opVars, evVars, drVars, trVars, gmVars, runs, uiVars>>

SpectralInitState ==
    /\ pc = "spectral"
    /\ err = "none"
    /\ data \in EvalData
    /\ k \in 0..Min2(Len(data) + 1, MaxK)
    /\ clusters = <<>>
    /\ labels = <<>>
    /\ minPts = 0
    /\ loopI = 0
    /\ KMeansIdle /\ HierIdle /\ DbscanIdle /\ OpticsIdle /\ RestIdle

SpectralNext == SpectralInit \/ SpectralIterate

SpecSpectral == SpectralInitState /\ [][SpectralNext]_vars

(***************************************************************************)
(* gaussianMixture (library).  The densities are values of Math.exp and    *)
(* are not computed: the EM loop leaves k weights, means and covariances   *)
(* whose values are not modelled (a mean is the token "mean"), and in the  *)
(* final assignment the weighted density of a row under a component is any *)
(* of RespValues (NaN arises from a zero variance).                        *)
(***************************************************************************)
RespValues == {NaN, <<0, 1>>, <<1, 1>>}

\* the scan of the final assignment from component j on: resp > maxResp
RECURSIVE ScanResp(_, _, _, _)
ScanResp(resp, j, maxResp, bestCluster) ==
    IF j >= Len(resp) THEN bestCluster
    ELSE IF XGreater(At(resp, j), maxResp)
         THEN ScanResp(resp, j + 1, At(resp, j), j)
         ELSE ScanResp(resp, j + 1, maxResp, bestCluster)

\* entry, initial parameters and the EM loop
GmmFit ==
    /\ pc = "gmm"
    /\ IF Len(data) = 0
       THEN \* data[0] is undefined: reading its length throws
            /\ pc' = "threw"
            /\ err' = "TypeError"
            /\ UNCHANGED centroids
       ELSE /\ centroids' = [j \in 1..k |-> "mean"]
            /\ pc' = "gmm_assign"
            /\ err' = err
    /\ labels' = <<>>
    /\ loopI' = 0
    /\ UNCHANGED <<data, k, clusters, minPts>>
    /\ UNCHANGED <<centroidRow, changed, iteration, inertia, prevInertia>>
    /\ UNCHANGED <<hcVars, dbVars, opVars, restVars>>

\* the final assignment of row loopI
GmmAssign ==
    /\ pc = "gmm_assign"
    /\ loopI < Len(data)
    /\ \E resp \in [1..k -> RespValues] :
           labels' = Append(labels, ScanResp(resp, 0, <<-1, 1>>, 0))
    /\ loopI' = loopI + 1
    /\ UNCHANGED <<pc, err, data, k, clusters, minPts, kmVars, hcVars, dbVars, opVars, restVars>>

GmmReturn ==
    /\ pc = "gmm_assign"
    /\ loopI >= Len(data)
    /\ pc' = "gmm_done"
    /\ UNCHANGED <<err, data, k, clusters, labels, minPts, loopI>>
    /\ UNCHANGED <<kmVars, hcVars, dbVars, opVars, restVars>>

GmmInitState ==
    /\ pc = "gmm"
    /\ err = "none"
    /\ data \in EvalData
    /\ k \in 0..Min2(Len(data) + 1, MaxK)
    /\ clusters = <<>>
    /\ labels = <<>>
    /\ minPts = 0
    /\ loopI = 0
    /\ KMeansIdle /\ HierIdle /\ DbscanIdle /\ OpticsIdle /\ RestIdle

GmmNext == GmmFit \/ GmmAssign \/ GmmReturn

SpecGmm == GmmInitState /\ [][GmmNext]_vars

(***************************************************************************)
(* The clusterers that assign every row to a cluster: kMeans,              *)
(* hierarchicalClustering, meanShift, gaussianMixture, spectralClustering. *)
(***************************************************************************)
PartitionInitState ==
    \/ KMeansInitState \/ HierInitState \/ MeanShiftInitState
    \/ GmmInitState \/ SpectralInitState

PartitionNext == KMeansNext \/ HierNext \/ MeanShiftNext \/ GmmNext \/ SpectralNext

SpecPartition == PartitionInitState /\ [][PartitionNext]_vars

PartitionReturned ==
    pc \in {"kmeans_done", "hier_done", "meanshift_done", "gmm_done", "spectral_done"}

\* the label sequence of the result (kMeans returns it as clusters)
PartitionLabels == IF pc = "kmeans_done" THEN clusters ELSE labels

\* the number of clusters of the result: the clusters hierarchicalClustering
\* is left with, the centroids of the others
PartitionCount == IF pc = "hier_done" THEN Len(clusters) ELSE Len(centroids)

\* 1 <= k <= n for the calls that take k, bandwidth > 0 for meanShift
ValidPartitionInput ==
    IF pc = "meanshift_done" THEN bandwidth > 0 ELSE k >= 1 /\ k <= Len(data)

\* C14: kMeans, hierarchicalClustering, meanShift, gaussianMixture and
\* spectralClustering, run on valid input, return only labels in 0..c-1,
\* c the number of clusters/centroids of the result; -1 never appears.
C14_LabelsWithinClusterCount ==
    (PartitionReturned /\ ValidPartitionInput)
        => \A i \in 1..Len(PartitionLabels) :
               PartitionLabels[i] \in 0..(PartitionCount - 1)

\* a meanShift result with two modes and both labels in use
C14_Witness ==
    /\ pc = "meanshift_done"
    /\ bandwidth > 0
    /\ Len(centroids) = 2
    /\ {labels[i] : i \in 1..Len(labels)} = {0, 1}

(***************************************************************************)
(* Every clusterer and the metrics: the calls a caller can make with a     *)
(* matrix (and, for the metrics, a label sequence) of its own.             *)
(***************************************************************************)
CallInitState ==
    \/ PartitionInitState \/ DbscanInitState \/ OpticsInitState \/ EvalInitState

CallNext == PartitionNext \/ DbscanNext \/ OpticsNext \/ EvalNext

SpecCalls == CallInitState /\ [][CallNext]_vars

\* C15: no clusterer and no metric modifies the caller's arrays: no step of
\* kMeans, hierarchicalClustering, dbscan, meanShift, gaussianMixture,
\* spectralClustering, optics or of a metric call changes an entry of the
\* data matrix, and no step of a metric call changes the label sequence it
\* was given.
C15_InputsUnmodified ==
    [][/\ data' = data
       /\ (pc \in {"evaluate", "evaluate_done"} => labels' = labels)]_vars

\* a kMeans call has returned after overwriting a centroid in place with a
\* mean that is no row of the matrix
C15_Witness ==
    /\ pc = "kmeans_done"
    /\ \E j \in 1..Len(centroids) :
           \A i \in 1..Len(data) : centroids[j] # RatVec(data[i])

(***************************************************************************)
(* autoSelectTechnique (dimensionality reduction).  Only the shape of the  *)
(* matrix is read: n = data.length and d = data[0].length.                 *)
(***************************************************************************)
\* mutant of autoSelectTechnique: the size test comes before the dimension test
autoSelectTechnique_SizeFirst(n, d) ==
    IF n < 50
    THEN [technique |-> "pca", reason |-> "Small dataset - PCA is most reliable"]
    ELSE IF d <= 3
    THEN [technique |-> "none", reason |-> "Data already low-dimensional"]
    ELSE IF d > 50 /\ n > 1000
    THEN [technique |-> "umap",
          reason |-> "High-dimensional data with many samples - UMAP preserves both local and global structure"]
    ELSE IF n > 500
    THEN [technique |-> "tsne", reason |-> "Medium-sized dataset - t-SNE good for visualization"]
    ELSE [technique |-> "pca", reason |-> "Default choice for linear dimensionality reduction"]

autoSelectTechnique(n, d) ==
    IF d <= 3
    THEN [technique |-> "none", reason |-> "Data already low-dimensional"]
    ELSE IF n < 50
    THEN [technique |-> "pca", reason |-> "Small dataset - PCA is most reliable"]
    ELSE IF d > 50 /\ n > 1000
    THEN [technique |-> "umap",
          reason |-> "High-dimensional data with many samples - UMAP preserves both local and global structure"]
    ELSE IF n > 500
    THEN [technique |-> "tsne", reason |-> "Medium-sized dataset - t-SNE good for visualization"]
    ELSE [technique |-> "pca", reason |-> "Default choice for linear dimensionality reduction"]

Select ==
    /\ pc = "select"
    /\ IF dims[1] = 0
       THEN \* data[0] is undefined: reading its length throws
            /\ pc' = "threw"
            /\ err' = "TypeError"
            /\ selection' = selection
       ELSE /\ selection' = autoSelectTechnique(dims[1], dims[2])
            /\ pc' = "select_done"
            /\ err' = err
    /\ UNCHANGED <<data, k, clusters, labels, minPts, loopI, dims>>
    /\ UNCHANGED <<kmVars, hcVars, dbVars, opVars, msVars, evVars, trVars, gmVars, runs, uiVars>>

\* shapes of the calls: the row and column counts around every threshold
RowCounts == {1, 2, 49, 50, 51, 100, 499, 500, 501, 999, 1000, 1001, 5000}

ColumnCounts == {1, 2, 3, 4, 5, 10, 49, 50, 51, 100}

SelectInitState ==
    /\ pc = "select"
    /\ err = "none"
    /\ dims \in (RowCounts \X ColumnCounts) \cup {<<0, 0>>}
    /\ selection = "none"
    /\ data = <<>>
    /\ k = 0
    /\ clusters = <<>>
    /\ labels = <<>>
    /\ minPts = 0
    /\ loopI = 0
    /\ KMeansIdle /\ HierIdle /\ DbscanIdle /\ OpticsIdle
    /\ MeanShiftIdle /\ EvalIdle /\ TrainIdle /\ GmmIdle /\ PairIdle /\ UiIdle

SelectNext == Select

SpecSelect == SelectInitState /\ [][SelectNext]_vars

(***************************************************************************)
(* Properties of autoSelectTechnique.                                      *)
(***************************************************************************)
Selected == pc = "select_done"

SmallOrLowDimensional == dims[1] < 50 \/ dims[2] <= 3

\* C16 as stated: 'pca' whenever n < 50 or d <= 3, 'umap' when d > 50 and
\* n > 1000, 'tsne' for the remaining datasets with n > 500, and always a
\* non-empty reason.
C16_AutoSelectAsStated ==
    Selected =>
        /\ SmallOrLowDimensional => selection.technique = "pca"
        /\ (~SmallOrLowDimensional /\ dims[2] > 50 /\ dims[1] > 1000)
               => selection.technique = "umap"
        /\ (~SmallOrLowDimensional /\ ~(dims[2] > 50 /\ dims[1] > 1000) /\ dims[1] > 500)
               => selection.technique = "tsne"
        /\ selection.reason # ""

\* C16 amended: 'none' whenever d <= 3; for d > 3, 'pca' when n < 50, 'umap'
\* when d > 50 and n > 1000, 'tsne' for the remaining datasets with n > 500;
\* always a non-empty reason.
C16_AutoSelect ==
    Selected =>
        /\ dims[2] <= 3 => selection.technique = "none"
        /\ (dims[2] > 3 /\ dims[1] < 50) => selection.technique = "pca"
        /\ (dims[2] > 50 /\ dims[1] > 1000) => selection.technique = "umap"
        /\ (dims[2] > 3 /\ dims[1] >= 50 /\ ~(dims[2] > 50 /\ dims[1] > 1000) /\ dims[1] > 500)
               => selection.technique = "tsne"
        /\ selection.reason # ""

\* a small matrix of three columns: no reduction is chosen
C16_Witness ==
    /\ Selected
    /\ dims[1] < 50 /\ dims[2] = 3
    /\ selection.technique = "none"

(***************************************************************************)
(* Core rows, border rows and the order of labelling in dbscan.            *)
(***************************************************************************)
\* the number of OTHER rows within eps of row p
OthersWithin(p) ==
    Cardinality({q \in 0..(Len(data) - 1) : q # p /\ WithinEps(data, p, q, eps)})

\* row p is a core row: at least minPts other rows lie within eps of it
IsCore(p) == OthersWithin(p) >= minPts

\* C17: a row is treated as a core row exactly when at least minPts OTHER
\* rows lie within eps of it, in both implementations: the row whose cluster
\* is being expanded has that many, and a row the route put on its noise
\* list has fewer.
C17_CoreCountsOthers ==
    /\ pc \in {"dbscan_expand", "lib_dbscan_expand"} => IsCore(loopI)
    /\ \A q \in 1..Len(noise) : ~IsCore(noise[q])

\* C18: once a row has a cluster id >= 0 its label never changes: a border
\* row within eps of core rows of two clusters keeps the id of the first
\* cluster that reached it.
C18_ClusterIdNeverChanges ==
    [][/\ \A p \in 1..Len(clusters) : clusters[p] >= 0 => clusters'[p] = clusters[p]
       /\ \A p \in 1..Len(labels) : labels[p] >= 0 => labels'[p] = labels[p]]_vars

\* C19: when dbscan returns, a row is labelled -1 if and only if it is not a
\* core row and no core row lies within eps of it; every core row and every
\* border row carries a cluster id >= 0.
C19_NoiseExactlyUnreachable ==
    DbscanReturned =>
        \A p \in 0..(Len(data) - 1) :
            (At(DbscanLabels, p) = -1)
                <=> (~IsCore(p) /\ ~\E q \in 0..(Len(data) - 1) :
                                        IsCore(q) /\ WithinEps(data, p, q, eps))

(***************************************************************************)
(* POST /api/model/train (train route): the checks of the request, the     *)
(* clusterer call it makes and the status of its response.  Of the stored  *)
(* dataset only the number of rows is kept.                                *)
(***************************************************************************)
\* the call of the switch over algorithm, none for an unsupported name
ClustererCall(algorithm, numClusters, n) ==
    CASE algorithm = "kmeans" -> [fn |-> "kMeans", k |-> numClusters]
      [] algorithm = "hierarchical" -> [fn |-> "hierarchicalClustering", k |-> numClusters]
      [] algorithm = "dbscan" -> [fn |-> "dbscan", eps |-> <<1, 2>>, minPts |-> Min2(5, n \div 10)]
      [] OTHER -> [fn |-> "none"]

\* the handler up to the clusterer call, or to the response that ends it
TrainPost ==
    /\ pc = "post"
    /\ IF request.datasetId = "" \/ request.algorithm = ""
       THEN response' = 400 /\ call' = call /\ pc' = "post_done"
       ELSE IF dataset = -1
       THEN response' = 404 /\ call' = call /\ pc' = "post_done"
       ELSE IF ClustererCall(request.algorithm, request.numClusters, dataset).fn = "none"
       THEN response' = 400 /\ call' = call /\ pc' = "post_done"
       ELSE /\ call' = ClustererCall(request.algorithm, request.numClusters, dataset)
            /\ response' = response
            /\ pc' = "post_call"
    /\ UNCHANGED <<err, data, k, clusters, labels, minPts, loopI, request, dataset, models>>
    /\ UNCHANGED <<kmVars, hcVars, dbVars, opVars, msVars, evVars, drVars, gmVars, runs, uiVars>>

\* mutant of TrainRun: the record is created before the clusterer has run
TrainRun_RecordFirst ==
    /\ pc = "post_call"
    /\ models' = models + 1
    /\ \E threw \in BOOLEAN :
           IF threw
           THEN response' = 500 /\ err' = "Error" /\ pc' = "post_done"
           ELSE response' = response /\ err' = err /\ pc' = "post_save"
    /\ UNCHANGED <<data, k, clusters, labels, minPts, loopI, request, dataset, call>>
    /\ UNCHANGED <<kmVars, hcVars, dbVars, opVars, msVars, evVars, drVars, gmVars, runs, uiVars>>

\* the switch and the silhouette score: the clusterer runs to its end, or an
\* exception of it reaches the catch block
TrainRun ==
    /\ pc = "post_call"
    /\ \E threw \in BOOLEAN :
           IF threw
           THEN response' = 500 /\ err' = "Error" /\ pc' = "post_done"
           ELSE response' = response /\ err' = err /\ pc' = "post_save"
    /\ UNCHANGED <<data, k, clusters, labels, minPts, loopI, request, dataset, call, models>>
    /\ UNCHANGED <<kmVars, hcVars, dbVars, opVars, msVars, evVars, drVars, gmVars, runs, uiVars>>

\* db.model.create and the response: the record is created and the response
\* is the model, or create rejects and the catch block answers
TrainRespond ==
    /\ pc = "post_save"
    /\ \E created \in BOOLEAN :
           IF created
           THEN response' = 200 /\ err' = err /\ models' = models + 1
           ELSE response' = 500 /\ err' = "Error" /\ models' = models
    /\ pc' = "post_done"
    /\ UNCHANGED <<data, k, clusters, labels, minPts, loopI, request, dataset, call>>
    /\ UNCHANGED <<kmVars, hcVars, dbVars, opVars, msVars, evVars, drVars, gmVars, runs, uiVars>>

\* request bodies: datasetId and algorithm present or missing, the
\* supported algorithm names and one that is not
TrainRequests ==
    [datasetId : {"", "ds1"},
     algorithm : {"", "kmeans", "hierarchical", "dbscan", "meanshift"},
     numClusters : {0, 2}]

\* row counts of the stored dataset
StoredRowCounts == (0..12) \cup {19, 20, 21, 49, 50, 51, 100}

TrainInitState ==
    /\ pc = "post"
    /\ err = "none"
    /\ request \in TrainRequests
    /\ dataset \in StoredRowCounts \cup {-1}
    /\ response = 0
    /\ call = [fn |-> "none"]
    /\ models = 0
    /\ data = <<>>
    /\ k = 0
    /\ clusters = <<>>
    /\ labels = <<>>
    /\ minPts = 0
    /\ loopI = 0
    /\ KMeansIdle /\ HierIdle /\ DbscanIdle /\ OpticsIdle
    /\ MeanShiftIdle /\ EvalIdle /\ SelectIdle /\ GmmIdle /\ PairIdle /\ UiIdle

TrainNext == TrainPost \/ TrainRun \/ TrainRespond

SpecTrain == TrainInitState /\ [][TrainNext]_vars

\* C20: the train endpoint never invokes dbscan with minPts below 1: for
\* every dataset of n >= 1 rows the minPts it derives is at least 1.
C20_TrainMinPtsAtLeastOne ==
    (/\ call.fn = "dbscan"
     /\ dataset >= 1)
        => call.minPts >= 1

(***************************************************************************)
(* simpleKMeans (evaluation library), the k-means that findOptimalK runs.  *)
(***************************************************************************)
SimpleKMeansInit ==
    /\ pc = "simple_kmeans"
    /\ IF Len(data) = 0
       THEN \* data[0] is undefined: reading its length throws
            /\ pc' = "threw"
            /\ err' = "TypeError"
            /\ UNCHANGED <<centroids, labels>>
       ELSE /\ \E choice \in [1..k -> 1..Len(data)] :
                  centroids' = [j \in 1..k |-> RatVec(data[choice[j]])]
            /\ labels' = [i \in 1..Len(data) |-> 0]
            /\ pc' = "simple_kmeans_loop"
            /\ err' = err
    /\ iter' = 0
    /\ UNCHANGED <<data, k, clusters, minPts, loopI, bandwidth, centers>>
    /\ UNCHANGED <<centroidRow, changed, iteration, inertia, prevInertia>>
    /\ UNCHANGED <<hcVars, dbVars, opVars, evVars, drVars, trVars, gmVars, runs, uiVars>>

\* one pass of the for loop over iter: break when the labels repeat, else
\* take the new labels and update the centroids
SimpleKMeansIterate ==
    /\ pc = "simple_kmeans_loop"
    /\ LET newLabels == Assign(data, centroids) IN
       IF newLabels = labels
       THEN /\ pc' = "simple_kmeans_done"
            /\ UNCHANGED <<labels, centroids, iter>>
       ELSE /\ labels' = newLabels
            /\ centroids' = UpdateCentroids(data, labels', centroids)
            /\ iter' = iter + 1
            /\ pc' = IF iter + 1 >= maxIterations THEN "simple_kmeans_done" ELSE pc
    /\ UNCHANGED <<err, data, k, clusters, minPts, loopI, bandwidth, centers>>
    /\ UNCHANGED <<centroidRow, changed, iteration, inertia, prevInertia>>
    /\ UNCHANGED <<hcVars, dbVars, opVars, evVars, drVars, trVars, gmVars, runs, uiVars>>

SimpleKMeansInitState ==
    /\ pc = "simple_kmeans"
    /\ err = "none"
    /\ data \in EvalData
    /\ k \in 0..Min2(Len(data) + 1, MaxK)
    /\ clusters = <<>>
    /\ labels = <<>>
    /\ minPts = 0
    /\ loopI = 0
    /\ KMeansIdle /\ HierIdle /\ DbscanIdle /\ OpticsIdle /\ RestIdle

SimpleKMeansNext == SimpleKMeansInit \/ SimpleKMeansIterate

SpecSimpleKMeans == SimpleKMeansInitState /\ [][SimpleKMeansNext]_vars

(***************************************************************************)
(* The three k-means routines: kMeans, simpleKMeans, simpleKMeansForSpectral *)
(***************************************************************************)
AllKMeansInitState == KMeansInitState \/ SimpleKMeansInitState \/ SpectralInitState

AllKMeansNext == KMeansNext \/ SimpleKMeansNext \/ SpectralNext

SpecAllKMeans == AllKMeansInitState /\ [][AllKMeansNext]_vars

\* an update step of kMeans; its labels are clusters'
KMeansUpdateStep == pc = "kmeans_loop" /\ iteration' = iteration + 1

\* an update step of simpleKMeans or simpleKMeansForSpectral; its labels are labels'
SimpleUpdateStep ==
    pc \in {"simple_kmeans_loop", "spectral_loop"} /\ iter' = iter + 1

\* the centroids after the step: defined numbers, and those of clusters
\* without a row under labs are the ones before the step
EmptyClustersKept(labs) ==
    /\ Len(centroids') = Len(centroids)
    /\ \A j \in 1..Len(centroids) :
          /\ \A d \in 1..Len(centroids'[j]) : centroids'[j][d][2] # 0
          /\ ClusterPoints(labs, j - 1) = {} => centroids'[j] = centroids[j]

\* C21: in every update step of kMeans, simpleKMeans and
\* simpleKMeansForSpectral a cluster with no assigned row keeps the centroid it
\* had before the step, and no centroid coordinate becomes NaN or undefined.
C21_EmptyClusterKeepsCentroid ==
    [][/\ KMeansUpdateStep => EmptyClustersKept(clusters')
       /\ SimpleUpdateStep => EmptyClustersKept(labels')]_vars

\* an update step has run and left a cluster without rows
C21_Witness ==
    /\ pc \in {"kmeans_loop", "simple_kmeans_loop", "spectral_loop"}
    /\ (iteration >= 1 \/ iter >= 1)
    /\ LET labs == IF pc = "kmeans_loop" THEN clusters ELSE labels IN
       \E j \in 1..Len(centroids) : ClusterPoints(labs, j - 1) = {}
    /\ \E j \in 1..Len(centroids) : \E r \in 1..Len(data) : centroids[j] # RatVec(data[r])

(***************************************************************************)
(* Properties of mergeCenters.                                             *)
(***************************************************************************)
\* the groups mergeCenters forms, in order: the cluster of every center i
\* that is not yet used when the outer loop reaches it
RECURSIVE MergeGroupsFrom(_, _, _, _)
MergeGroupsFrom(cs, threshold, used, i) ==
    IF i > Len(cs) THEN <<>>
    ELSE IF i \in used THEN MergeGroupsFrom(cs, threshold, used, i + 1)
    ELSE LET cluster == {i} \cup {j \in (i + 1)..Len(cs) :
                                     j \notin used /\ DistanceWithin(cs[i], cs[j], threshold)}
         IN  <<cluster>> \o MergeGroupsFrom(cs, threshold, used \cup cluster, i + 1)

MergeGroups(cs, threshold) == MergeGroupsFrom(cs, threshold, {}, 1)

\* the centers have converged and meanShift is about to merge them
ReadyToMerge == pc = "meanshift_merge" /\ iter + 1 < msMaxIterations

\* C22: two converged centers of meanShift that lie within bandwidth/2 of
\* each other are in the same group of mergeCenters(centers, bandwidth/2).
C22_CloseCentersMerged ==
    ReadyToMerge =>
        LET threshold == Rat(bandwidth, 2)
            groups == MergeGroups(centers, threshold)
        IN  \A i, j \in 1..Len(centers) :
                DistanceWithin(centers[i], centers[j], threshold) =>
                    \E g \in 1..Len(groups) : {i, j} \subseteq groups[g]

(***************************************************************************)
(* The per-point silhouette coefficient.                                   *)
(***************************************************************************)
\* a silhouette function has returned a value it computed row by row
SilhouetteComputed ==
    /\ EvalReturned
    /\ \/ metric = "calculateSilhouetteScore" /\ ~TooFewClusters(Distinct(labels))
       \/ metric = "route.calculateSilhouetteScore"

\* the coefficient the called function added to totalScore for row i
PointCoefficient(i) ==
    LET a == SilhouetteA(data, labels, i)
        b == SilhouetteB(data, labels, i)
    IN  IF metric = "calculateSilhouetteScore" THEN SilhouetteS(a, b)
        ELSE RouteSilhouetteS(a, b)

\* C24: in both silhouette implementations the coefficient of a row is
\* (b - a) / max(a, b), and it is 0 when a = b = 0; it is never undefined.
C24_PointCoefficient ==
    SilhouetteComputed =>
        \A i \in 1..Len(data) :
            LET a == SilhouetteA(data, labels, i)
                b == SilhouetteB(data, labels, i)
            IN  /\ ~IsNaN(PointCoefficient(i))
                /\ (a = <<0, 1>> /\ b = <<0, 1>>) => PointCoefficient(i) = <<0, 1>>
                /\ (b # Infinity /\ XGreater(XMax(a, b), <<0, 1>>)) =>
                       PointCoefficient(i) = XDiv(XSub(b, a), XMax(a, b))

\* the same for the train route's function alone
C24_RoutePointCoefficient ==
    metric = "route.calculateSilhouetteScore" => C24_PointCoefficient

\* the request has been answered
TrainAnswered == pc = "post_done"

\* C25: POST /api/model/train creates a model record only after the clusterer
\* has run to its end: a request answered 400, 404 or 500 has created none,
\* and while the clusterer has not returned there is none.
C25_ModelOnlyAfterClusterer ==
    /\ pc \in {"post", "post_call", "post_save"} => models = 0
    /\ (TrainAnswered /\ response # 200) => models = 0
    /\ models > 0 => (call.fn # "none" /\ err = "none" /\ response = 200)

\* the clusterer was called and threw: the answer is 500
C25_Witness ==
    /\ TrainAnswered
    /\ call.fn # "none"
    /\ response = 500
    /\ err = "Error"
    /\ models = 0

(***************************************************************************)
(* The EM loop of gaussianMixture, one pass of the for loop per step.      *)
(* Math.exp is not computed: the weighted density of a row under a         *)
(* component is 1 (a positive number), 0 (Math.exp underflows), Infinity   *)
(* (the product of the variances underflows to 0) or NaN (a variance or    *)
(* the weight is 0 or NaN), as far as the parameters allow.  Under the     *)
(* initial identity covariance the density is a positive number at the     *)
(* component's own mean and never Infinity or NaN.                         *)
(***************************************************************************)
gmmMaxIterations == 100

\* number of passes of the EM loop that are followed
MaxEmSteps == 2

\* largest number of components of the EM loop that is followed
MaxComponents == 2

\* weights[j]: 1 / k at first, then totalResp / n of the last M-step
Weight(j) ==
    IF iter = 0 THEN Rat(1, k)
    ELSE XDiv(XSumTo([i \in 1..Len(data) |-> responsibilities[i][j]], Len(data)),
              <<Len(data), 1>>)

\* the values weights[j] * multivariateGaussian(data[i], means[j], covariances[j]) can take
WeightedDensities(i, j) ==
    IF IsNaN(Weight(j)) \/ \E l \in 1..Len(covariances[j]) : covariances[j][l] = <<0, 1>>
    THEN {NaN}
    ELSE IF Weight(j) = <<0, 1>> THEN {<<0, 1>>, NaN}
    ELSE IF \A l \in 1..Len(covariances[j]) : covariances[j][l] = <<1, 1>>
    THEN (IF RatVec(data[i]) = centroids[j] THEN {<<1, 1>>} ELSE {<<0, 1>>, <<1, 1>>})
    ELSE {<<0, 1>>, <<1, 1>>, Infinity}

\* the normalisation of the E-step: resp[j] = sum > 0 ? resp[j] / sum : 1 / k
Normalised(resp) ==
    LET sum == XSumTo(resp, Len(resp)) IN
    [j \in 1..Len(resp) |->
        IF XGreater(sum, <<0, 1>>) THEN XDiv(resp[j], sum) ELSE Rat(1, Len(resp))]

\* the rows of responsibilities the E-step can leave for row i
RespRows(i) ==
    {Normalised(resp) :
        resp \in {f \in [1..k -> {<<0, 1>>, <<1, 1>>, Infinity, NaN}] :
                     \A j \in 1..k : f[j] \in WeightedDensities(i, j)}}

\* totalResp of component j (1-based)
TotalResp(R, j) == XSumTo([i \in 1..Len(R) |-> R[i][j]], Len(R))

\* newMean of the M-step: totalResp > 0 ? newMean[l] / totalResp : 0
NewMean(m, R, j) ==
    LET totalResp == TotalResp(R, j) IN
    [l \in 1..Len(m[1]) |->
        IF XGreater(totalResp, <<0, 1>>)
        THEN XDiv(RSum([i \in 1..Len(m) |-> RMul(R[i][j], <<m[i][l], 1>>)]), totalResp)
        ELSE <<0, 1>>]

\* the diagonal of newCov, about the mean just assigned:
\* totalResp > 0 ? row[l] / totalResp : 1
NewCov(m, R, j, mean) ==
    LET totalResp == TotalResp(R, j) IN
    [l \in 1..Len(m[1]) |->
        IF XGreater(totalResp, <<0, 1>>)
        THEN XDiv(RSum([i \in 1..Len(m) |->
                           RMul(R[i][j], Square(RSub(<<m[i][l], 1>>, mean[l])))]), totalResp)
        ELSE <<1, 1>>]

\* entry and initial parameters
GmmInit ==
    /\ pc = "gaussianMixture"
    /\ IF Len(data) = 0
       THEN \* data[0] is undefined: reading its length throws
            /\ pc' = "threw"
            /\ err' = "TypeError"
            /\ UNCHANGED <<centroids, covariances>>
       ELSE /\ \E choice \in [1..k -> 1..Len(data)] :
                  centroids' = [j \in 1..k |-> RatVec(data[choice[j]])]
            /\ covariances' = [j \in 1..k |-> [l \in 1..Len(data[1]) |-> <<1, 1>>]]
            /\ pc' = "gmm_loop"
            /\ err' = err
    /\ iter' = 0
    /\ UNCHANGED <<data, k, clusters, labels, minPts, loopI, bandwidth, centers, responsibilities>>
    /\ UNCHANGED <<centroidRow, changed, iteration, inertia, prevInertia>>
    /\ UNCHANGED <<hcVars, dbVars, opVars, evVars, drVars, trVars, runs, uiVars>>

\* one pass of the EM loop: E-step, M-step and the convergence test; the
\* log-likelihood is not computed, so the loop may break after any pass
GmmIterate ==
    /\ pc = "gmm_loop"
    /\ iter < gmmMaxIterations
    /\ iter < MaxEmSteps
    /\ \E rows \in {[i \in 1..Len(data) |-> RespRows(i)]} :
          \E R \in [1..Len(data) -> UNION {rows[i] : i \in 1..Len(data)}] :
              /\ \A i \in 1..Len(data) : R[i] \in rows[i]
              /\ responsibilities' = R
    /\ centroids' = [j \in 1..k |-> NewMean(data, responsibilities', j)]
    /\ covariances' = [j \in 1..k |-> NewCov(data, responsibilities', j, centroids'[j])]
    /\ iter' = iter + 1
    /\ \E break \in BOOLEAN :
          pc' = IF break \/ iter + 1 >= gmmMaxIterations THEN "gmm_fitted" ELSE pc
    /\ UNCHANGED <<err, data, k, clusters, labels, minPts, loopI, bandwidth, centers>>
    /\ UNCHANGED <<centroidRow, changed, iteration, inertia, prevInertia>>
    /\ UNCHANGED <<hcVars, dbVars, opVars, evVars, drVars, trVars, runs, uiVars>>

GmmEmInitState ==
    /\ pc = "gaussianMixture"
    /\ err = "none"
    /\ data \in EvalData
    /\ k \in 0..Min2(Len(data) + 1, MaxComponents)
    /\ clusters = <<>>
    /\ labels = <<>>
    /\ minPts = 0
    /\ loopI = 0
    /\ KMeansIdle /\ HierIdle /\ DbscanIdle /\ OpticsIdle /\ RestIdle

GmmEmNext == GmmInit \/ GmmIterate

SpecGmmEm == GmmEmInitState /\ [][GmmEmNext]_vars

KMeansConverged ==
    \/ pc = "kmeans_done" /\ ~changed
    \/ pc \in {"simple_kmeans_done", "spectral_done"} /\ iter < maxIterations

\* the labels it returned
KMeansLabels == IF pc = "kmeans_done" THEN clusters ELSE labels

\* the arithmetic mean of the rows of m at the positions S
MeanOfRows(m, S) == [d \in 1..Len(m[1]) |-> Rat(SumOver(m, S, d), Cardinality(S))]

CentroidsAreMeans ==
    \A j \in 1..Len(centroids) :
        ClusterPoints(KMeansLabels, j - 1) # {} =>
            centroids[j] = MeanOfRows(data, ClusterPoints(KMeansLabels, j - 1))

\* C26: when kMeans, simpleKMeans or simpleKMeansForSpectral returns after
\* converging, with k >= 1, the centroid of every cluster that has rows is the
\* arithmetic mean of the rows carrying its label.
C26_CentroidIsMeanOfCluster ==
    (KMeansConverged /\ k >= 1) => CentroidsAreMeans

\* the same for kMeans of the train route alone
C26_RouteCentroidIsMean ==
    (pc = "kmeans_done" /\ ~changed /\ k >= 1) => CentroidsAreMeans

\* C27: when dbscan of the train route returns, a row index is in noise if
\* and only if the label of that row is -1.
C27_NoiseMatchesLabels ==
    pc = "dbscan_done" =>
        \A p \in 0..(Len(data) - 1) : Contains(noise, p) <=> At(clusters, p) = -1

\* one direction holds: every row labelled -1 is in noise
C27_UnlabelledRowsAreNoise ==
    pc = "dbscan_done" =>
        \A p \in 0..(Len(data) - 1) : At(clusters, p) = -1 => Contains(noise, p)

\* C28: in hierarchicalClustering the distance of every linkage entry is at
\* least the distance of the entry before it, and its mergedSize is the sum
\* of the sizes of the two clusters merged in that step.
C28_LinkageMonotone ==
    [][linkage' # linkage =>
          LET entry == linkage'[Len(linkage')] IN
          /\ Len(linkage') = Len(linkage) + 1
          /\ entry[4] = Len(At(clusters, entry[1])) + Len(At(clusters, entry[2]))
          /\ Len(linkage) > 0 => RLeq(linkage[Len(linkage)][3], entry[3])]_vars

\* two merges, the second at a larger distance and of a cluster of two rows
C28_Witness ==
    /\ pc \in {"hier_loop", "hier_done"}
    /\ Len(linkage) >= 2
    /\ RLess(linkage[1][3], linkage[2][3])
    /\ linkage[1][4] = 2
    /\ linkage[2][4] = 3

(***************************************************************************)
(* spectralClustering as a function of its arguments and of the rows drawn *)
(* as initial centroids.  An entry of the similarity matrix is represented *)
(* by the argument of Math.exp; the degree matrix and the Laplacian are    *)
(* built from the similarity matrix alone and are never read.              *)
(***************************************************************************)
\* similarity: 1.0 = exp(0) on the diagonal, exp(-dist * dist / (2 * sigma * sigma)) elsewhere
Similarity(m, sigma) ==
    [i \in 1..Len(m) |-> [j \in 1..Len(m) |->
        IF i = j THEN <<0, 1>>
        ELSE XDiv(XNeg(SqDist(RatVec(m[i]), RatVec(m[j]))), <<2 * sigma * sigma, 1>>)]]

\* mutant of SpectralInput: k-means runs on an embedding computed from the
\* similarity matrix
SpectralInput_Embedding(m, similarity) ==
    [i \in 1..Len(m) |->
        <<RSum([j \in 1..Len(m) |-> <<similarity[i][j][2], 1>>])[1]>>]

\* the matrix handed to simpleKMeansForSpectral: the original data
SpectralInput(m, similarity) == m

\* the sequence s written out entry by entry (the same value)
RECURSIVE Entries(_, _)
Entries(s, q) == IF q = 0 THEN <<>> ELSE Append(Entries(s, q - 1), s[q])

\* the for loop of simpleKMeansForSpectral from pass it on: <<labels, centroids>>
RECURSIVE KMeansLoop(_, _, _, _)
KMeansLoop(m, labs, cents, it) ==
    IF it >= spectralMaxIterations THEN <<labs, cents>>
    ELSE LET newLabels == Entries(Assign(m, cents), Len(m)) IN
         IF newLabels = labs THEN <<labs, cents>>
         ELSE LET updated == UpdateCentroids(m, newLabels, cents)
                  newCentroids == Entries([j \in 1..Len(cents) |->
                                              Entries(updated[j], Len(m[1]))], Len(cents))
              IN  KMeansLoop(m, newLabels, newCentroids, it + 1)

\* simpleKMeansForSpectral with the rows choice[1..k] drawn as initial centroids
simpleKMeansForSpectral(m, kk, choice) ==
    IF Len(m) = 0
    THEN \* data[0] is undefined: reading its length throws
         [err |-> "TypeError", labels |-> <<>>, centroids |-> <<>>]
    ELSE LET fit == KMeansLoop(m, [i \in 1..Len(m) |-> 0],
                               Entries([j \in 1..kk |-> RatVec(m[choice[j]])], kk), 0)
         IN  [err |-> "none", labels |-> fit[1], centroids |-> fit[2]]

spectralClustering(m, kk, sigma, choice) ==
    simpleKMeansForSpectral(SpectralInput(m, Similarity(m, sigma)), kk, choice)

\* values of sigma
SigmaValues == 0..2

\* two calls on the same data and k, with two different values of sigma;
\* Math.random gives both the same draws
SpectralTwoCalls ==
    /\ pc = "spectral_pair"
    /\ \E choice \in [1..k -> 1..(IF Len(data) = 0 THEN 1 ELSE Len(data))] :
       \E sigma1, sigma2 \in SigmaValues :
           /\ sigma1 < sigma2
           /\ runs' = <<[sigma |-> sigma1] @@ spectralClustering(data, k, sigma1, choice),
                        [sigma |-> sigma2] @@ spectralClustering(data, k, sigma2, choice)>>
    /\ pc' = "spectral_pair_done"
    /\ UNCHANGED <<err, data, k, clusters, labels, minPts, loopI>>
    /\ UNCHANGED <<kmVars, hcVars, dbVars, opVars, msVars, evVars, drVars, trVars, gmVars, uiVars>>

SpectralPairInitState ==
    /\ pc = "spectral_pair"
    /\ err = "none"
    /\ data \in EvalData
    /\ k \in 0..Min2(Len(data) + 1, MaxK)
    /\ clusters = <<>>
    /\ labels = <<>>
    /\ minPts = 0
    /\ loopI = 0
    /\ KMeansIdle /\ HierIdle /\ DbscanIdle /\ OpticsIdle /\ RestIdle

SpectralPairNext == SpectralTwoCalls

SpecSpectralPair == SpectralPairInitState /\ [][SpectralPairNext]_vars

timeoutPeriods == 5

\* periods that are followed after the call
MaxPeriods == 20

\* the call up to await fetch(...)
UiStart ==
    /\ pc = "ui"
    /\ \E selectedDataset \in {"", "ds1"} :
          IF selectedDataset = ""
          THEN /\ uiError' = "Please select a dataset first"
               /\ pc' = "ui_refused"
               /\ UNCHANGED <<isTraining, trainingProgress, progressInterval>>
          ELSE /\ isTraining' = TRUE
               /\ trainingProgress' = 0
               /\ uiError' = ""
               /\ progressInterval' = TRUE
               /\ pc' = "ui_fetching"
    /\ UNCHANGED <<finalTimeout, now>>
    /\ UNCHANGED <<err, data, k, clusters, labels, minPts, loopI>>
    /\ UNCHANGED <<kmVars, hcVars, dbVars, opVars, msVars, evVars, drVars, trVars, gmVars, runs>>

\* 200 ms pass; the callback of the interval runs when the interval is set
UiPeriod ==
    /\ pc \in {"ui_fetching", "ui_settled", "ui_ended"}
    /\ now < MaxPeriods
    /\ finalTimeout # now
    /\ now' = now + 1
    /\ IF progressInterval
       THEN IF trainingProgress >= 90
            THEN progressInterval' = FALSE /\ trainingProgress' = 90
            ELSE progressInterval' = TRUE /\ trainingProgress' = trainingProgress + 10
       ELSE UNCHANGED <<progressInterval, trainingProgress>>
    /\ UNCHANGED <<pc, isTraining, uiError, finalTimeout>>
    /\ UNCHANGED <<err, data, k, clusters, labels, minPts, loopI>>
    /\ UNCHANGED <<kmVars, hcVars, dbVars, opVars, msVars, evVars, drVars, trVars, gmVars, runs>>

\* the fetch settles: the rest of the try block, the catch and the finally
\* block.  A rejected fetch skips clearInterval and setTrainingProgress(100)
UiSettle ==
    /\ pc = "ui_fetching"
    /\ \E outcome \in {"ok", "error status", "rejected"} :
          /\ progressInterval' = IF outcome = "rejected" THEN progressInterval ELSE FALSE
          /\ trainingProgress' = IF outcome = "rejected" THEN trainingProgress ELSE 100
          /\ uiError' = IF outcome = "ok" THEN uiError ELSE "Failed to train model"
    /\ finalTimeout' = now + timeoutPeriods
    /\ pc' = "ui_settled"
    /\ UNCHANGED <<isTraining, now>>
    /\ UNCHANGED <<err, data, k, clusters, labels, minPts, loopI>>
    /\ UNCHANGED <<kmVars, hcVars, dbVars, opVars, msVars, evVars, drVars, trVars, gmVars, runs>>

\* the timeout of the finally block fires
UiEnd ==
    /\ pc = "ui_settled"
    /\ finalTimeout = now
    /\ isTraining' = FALSE
    /\ trainingProgress' = 0
    /\ finalTimeout' = -1
    /\ pc' = "ui_ended"
    /\ UNCHANGED <<uiError, progressInterval, now>>
    /\ UNCHANGED <<err, data, k, clusters, labels, minPts, loopI>>
    /\ UNCHANGED <<kmVars, hcVars, dbVars, opVars, msVars, evVars, drVars, trVars, gmVars, runs>>

UiInitState ==
    /\ pc = "ui"
    /\ err = "none"
    /\ data = <<>>
    /\ k = 0
    /\ clusters = <<>>
    /\ labels = <<>>
    /\ minPts = 0
    /\ loopI = 0
    /\ KMeansIdle /\ HierIdle /\ DbscanIdle /\ OpticsIdle /\ RestIdle

UiNext == UiStart \/ UiPeriod \/ UiSettle \/ UiEnd

SpecUi == UiInitState /\ [][UiNext]_vars

\* C30: once a training attempt has ended (the final timeout has reset
\* isTraining and trainingProgress), no timer of that attempt changes
\* trainingProgress again, whatever the outcome of the request.
C30_NoProgressAfterEnd ==
    [][pc = "ui_ended" => trainingProgress' = trainingProgress]_vars

=============================================================================
